---- MODULE Spec2Model ----
(***************************************************************************)
(* Code_Assistant: the analysis request pipeline.                          *)
(*   llm_service.py  RateLimiter (can_call, wait_until_can_call) and the   *)
(*                   retry loop of _analyze_with_ollama                    *)
(*   app.py          the Streamlit session: cache, history, submissions    *)
(* Time is the integer number of seconds read by time.time().              *)
(***************************************************************************)
EXTENDS Integers, Sequences, FiniteSets, TLC

\* ------------------------------------------------------------------ bounds
MaxTime == 5
MaxTimeApp == 3
MaxTimeAnalyze == 0
MaxTimeWait == 2
MaxTextLen == 3
MaxModels == 3

\* -------------------------------------------------------- program constants
max_calls == 3
period == 5
max_retries == 3
retry_delay == 2
PreviewLen == 50
ProgressSeconds == 1

\* ------------------------------------------------------------------ domains
Workers == {"t1", "t2"}
UI == "ui"
Threads == Workers \cup {UI}
NoThread == "none"
Models == {"codellama", "llama2"}
Keys == Models

VARIABLES
    now,        \* the wall clock, time.time()
    calls,      \* RateLimiter.calls: key -> list of call times
    lock,       \* RateLimiter.lock: the thread holding it, or NoThread
    pc,         \* thread -> position in the code
    key,        \* thread -> the key argument of its can_call
    tnow,       \* thread -> the local `now` of its can_call
    ret,        \* thread -> the value its can_call returned
    waiting,    \* thread -> TRUE inside wait_until_can_call
    seen,       \* observation: thread -> the key's list as its can_call found it
    admitted,   \* observation: key -> times, still in the trailing window, of calls that returned True
    streak,     \* observation: key -> the checks made since the key's list was found empty
    cache,      \* st.session_state[<md5 key>]: cache key -> (analysis, metrics) or NoResult
    history,    \* st.session_state.history
    shown,      \* what the page shows after the run of main()
    buttons,    \* the buttons that run drew: Clear History, and how many history entries
    code,       \* code_input of the submission being analysed
    model,      \* selected_model of the submission being analysed
    attempt,    \* the retry loop's `attempt`
    start_time, \* app.py start_time of the submission
    result,     \* observation: what the analyze_code call just made returned or raised
    trace,      \* observation: the requests and retry sleeps of the analyze call just made
    before      \* observation: cache and history when the submission being analysed began

rlvars == <<calls, lock, pc, key, tnow, ret, waiting, seen>>
obsvars == <<admitted, streak>>
appvars == <<cache, history, shown, buttons, code, model, attempt, start_time, trace, result, before>>
vars == <<now, rlvars, obsvars, appvars>>

Min(a, b) == IF a < b THEN a ELSE b
Max(a, b) == IF a > b THEN a ELSE b

\* ---------------------------------------------------------------- helpers
\* mutant: a call exactly period old is kept
FreshKeepsBoundary(list, t) == SelectSeq(list, LAMBDA call_time : t - call_time <= period)

\* mutant: old calls are never dropped
FreshKeepsAll(list, t) == list

\* llm_service.py:23  the comprehension's filter
Fresh(list, t) == SelectSeq(list, LAMBDA call_time : t - call_time < period)

\* mutant: can_call without the lock
LockFreeNoLock == TRUE

\* llm_service.py:20  `with self.lock` can be entered
LockFree == lock = NoThread

\* mutant: the limit compared with <=
HasRoomOffByOne(cs, k) == Len(cs[k]) <= max_calls

\* mutant: one quota shared by all keys
HasRoomAllKeys(cs, k) == Len(cs["codellama"]) + Len(cs["llama2"]) < max_calls

\* llm_service.py:26
HasRoom(cs, k) == Len(cs[k]) < max_calls

\* the admissions whose timestamp lies in the window of length period ending at t
TrailingWindow(list, t) == SelectSeq(list, LAMBDA a : a <= t /\ t - a < period)

NoStreak == [first |-> -1, n |-> 0, trues |-> 0]

\* the run of checks of one key that starts when its list is found empty and
\* lasts while the checks stay within period of the first
NextStreak(s, t, ok, empty) ==
    IF empty THEN [first |-> t, n |-> 1, trues |-> IF ok THEN 1 ELSE 0]
    ELSE IF s = NoStreak THEN NoStreak
    ELSE IF t - s.first < period
         THEN [first |-> s.first, n |-> Min(s.n + 1, max_calls + 2),
               trues |-> s.trues + (IF ok THEN 1 ELSE 0)]
         ELSE NoStreak

\* ------------------------------------------------------------------- texts
\* a text is the sequence of its characters
\* a character is its Unicode code point (ord), so that every character of a
\* Python str is a value of the model; the tables below are those of the
\* Python the program runs on (3.11, Unicode 14.0.0)
InRanges(c, rs) == \E i \in DOMAIN rs : rs[i][1] <= c /\ c <= rs[i][2]

\* regex \w on str: the code points for which str.isalnum() holds, and "_"
WordRanges ==
  <<
    <<48,57>>, <<65,90>>, <<95,95>>, <<97,122>>, <<170,170>>, <<178,179>>,
    <<181,181>>, <<185,186>>, <<188,190>>, <<192,214>>, <<216,246>>, <<248,705>>,
    <<710,721>>, <<736,740>>, <<748,748>>, <<750,750>>, <<880,884>>, <<886,887>>,
    <<890,893>>, <<895,895>>, <<902,902>>, <<904,906>>, <<908,908>>, <<910,929>>,
    <<931,1013>>, <<1015,1153>>, <<1162,1327>>, <<1329,1366>>, <<1369,1369>>, <<1376,1416>>,
    <<1488,1514>>, <<1519,1522>>, <<1568,1610>>, <<1632,1641>>, <<1646,1647>>, <<1649,1747>>,
    <<1749,1749>>, <<1765,1766>>, <<1774,1788>>, <<1791,1791>>, <<1808,1808>>, <<1810,1839>>,
    <<1869,1957>>, <<1969,1969>>, <<1984,2026>>, <<2036,2037>>, <<2042,2042>>, <<2048,2069>>,
    <<2074,2074>>, <<2084,2084>>, <<2088,2088>>, <<2112,2136>>, <<2144,2154>>, <<2160,2183>>,
    <<2185,2190>>, <<2208,2249>>, <<2308,2361>>, <<2365,2365>>, <<2384,2384>>, <<2392,2401>>,
    <<2406,2415>>, <<2417,2432>>, <<2437,2444>>, <<2447,2448>>, <<2451,2472>>, <<2474,2480>>,
    <<2482,2482>>, <<2486,2489>>, <<2493,2493>>, <<2510,2510>>, <<2524,2525>>, <<2527,2529>>,
    <<2534,2545>>, <<2548,2553>>, <<2556,2556>>, <<2565,2570>>, <<2575,2576>>, <<2579,2600>>,
    <<2602,2608>>, <<2610,2611>>, <<2613,2614>>, <<2616,2617>>, <<2649,2652>>, <<2654,2654>>,
    <<2662,2671>>, <<2674,2676>>, <<2693,2701>>, <<2703,2705>>, <<2707,2728>>, <<2730,2736>>,
    <<2738,2739>>, <<2741,2745>>, <<2749,2749>>, <<2768,2768>>, <<2784,2785>>, <<2790,2799>>,
    <<2809,2809>>, <<2821,2828>>, <<2831,2832>>, <<2835,2856>>, <<2858,2864>>, <<2866,2867>>,
    <<2869,2873>>, <<2877,2877>>, <<2908,2909>>, <<2911,2913>>, <<2918,2927>>, <<2929,2935>>,
    <<2947,2947>>, <<2949,2954>>, <<2958,2960>>, <<2962,2965>>, <<2969,2970>>, <<2972,2972>>,
    <<2974,2975>>, <<2979,2980>>, <<2984,2986>>, <<2990,3001>>, <<3024,3024>>, <<3046,3058>>,
    <<3077,3084>>, <<3086,3088>>, <<3090,3112>>, <<3114,3129>>, <<3133,3133>>, <<3160,3162>>,
    <<3165,3165>>, <<3168,3169>>, <<3174,3183>>, <<3192,3198>>, <<3200,3200>>, <<3205,3212>>,
    <<3214,3216>>, <<3218,3240>>, <<3242,3251>>, <<3253,3257>>, <<3261,3261>>, <<3293,3294>>,
    <<3296,3297>>, <<3302,3311>>, <<3313,3314>>, <<3332,3340>>, <<3342,3344>>, <<3346,3386>>,
    <<3389,3389>>, <<3406,3406>>, <<3412,3414>>, <<3416,3425>>, <<3430,3448>>, <<3450,3455>>,
    <<3461,3478>>, <<3482,3505>>, <<3507,3515>>, <<3517,3517>>, <<3520,3526>>, <<3558,3567>>,
    <<3585,3632>>, <<3634,3635>>, <<3648,3654>>, <<3664,3673>>, <<3713,3714>>, <<3716,3716>>,
    <<3718,3722>>, <<3724,3747>>, <<3749,3749>>, <<3751,3760>>, <<3762,3763>>, <<3773,3773>>,
    <<3776,3780>>, <<3782,3782>>, <<3792,3801>>, <<3804,3807>>, <<3840,3840>>, <<3872,3891>>,
    <<3904,3911>>, <<3913,3948>>, <<3976,3980>>, <<4096,4138>>, <<4159,4169>>, <<4176,4181>>,
    <<4186,4189>>, <<4193,4193>>, <<4197,4198>>, <<4206,4208>>, <<4213,4225>>, <<4238,4238>>,
    <<4240,4249>>, <<4256,4293>>, <<4295,4295>>, <<4301,4301>>, <<4304,4346>>, <<4348,4680>>,
    <<4682,4685>>, <<4688,4694>>, <<4696,4696>>, <<4698,4701>>, <<4704,4744>>, <<4746,4749>>,
    <<4752,4784>>, <<4786,4789>>, <<4792,4798>>, <<4800,4800>>, <<4802,4805>>, <<4808,4822>>,
    <<4824,4880>>, <<4882,4885>>, <<4888,4954>>, <<4969,4988>>, <<4992,5007>>, <<5024,5109>>,
    <<5112,5117>>, <<5121,5740>>, <<5743,5759>>, <<5761,5786>>, <<5792,5866>>, <<5870,5880>>,
    <<5888,5905>>, <<5919,5937>>, <<5952,5969>>, <<5984,5996>>, <<5998,6000>>, <<6016,6067>>,
    <<6103,6103>>, <<6108,6108>>, <<6112,6121>>, <<6128,6137>>, <<6160,6169>>, <<6176,6264>>,
    <<6272,6276>>, <<6279,6312>>, <<6314,6314>>, <<6320,6389>>, <<6400,6430>>, <<6470,6509>>,
    <<6512,6516>>, <<6528,6571>>, <<6576,6601>>, <<6608,6618>>, <<6656,6678>>, <<6688,6740>>,
    <<6784,6793>>, <<6800,6809>>, <<6823,6823>>, <<6917,6963>>, <<6981,6988>>, <<6992,7001>>,
    <<7043,7072>>, <<7086,7141>>, <<7168,7203>>, <<7232,7241>>, <<7245,7293>>, <<7296,7304>>,
    <<7312,7354>>, <<7357,7359>>, <<7401,7404>>, <<7406,7411>>, <<7413,7414>>, <<7418,7418>>,
    <<7424,7615>>, <<7680,7957>>, <<7960,7965>>, <<7968,8005>>, <<8008,8013>>, <<8016,8023>>,
    <<8025,8025>>, <<8027,8027>>, <<8029,8029>>, <<8031,8061>>, <<8064,8116>>, <<8118,8124>>,
    <<8126,8126>>, <<8130,8132>>, <<8134,8140>>, <<8144,8147>>, <<8150,8155>>, <<8160,8172>>,
    <<8178,8180>>, <<8182,8188>>, <<8304,8305>>, <<8308,8313>>, <<8319,8329>>, <<8336,8348>>,
    <<8450,8450>>, <<8455,8455>>, <<8458,8467>>, <<8469,8469>>, <<8473,8477>>, <<8484,8484>>,
    <<8486,8486>>, <<8488,8488>>, <<8490,8493>>, <<8495,8505>>, <<8508,8511>>, <<8517,8521>>,
    <<8526,8526>>, <<8528,8585>>, <<9312,9371>>, <<9450,9471>>, <<10102,10131>>, <<11264,11492>>,
    <<11499,11502>>, <<11506,11507>>, <<11517,11517>>, <<11520,11557>>, <<11559,11559>>, <<11565,11565>>,
    <<11568,11623>>, <<11631,11631>>, <<11648,11670>>, <<11680,11686>>, <<11688,11694>>, <<11696,11702>>,
    <<11704,11710>>, <<11712,11718>>, <<11720,11726>>, <<11728,11734>>, <<11736,11742>>, <<11823,11823>>,
    <<12293,12295>>, <<12321,12329>>, <<12337,12341>>, <<12344,12348>>, <<12353,12438>>, <<12445,12447>>,
    <<12449,12538>>, <<12540,12543>>, <<12549,12591>>, <<12593,12686>>, <<12690,12693>>, <<12704,12735>>,
    <<12784,12799>>, <<12832,12841>>, <<12872,12879>>, <<12881,12895>>, <<12928,12937>>, <<12977,12991>>,
    <<13312,19903>>, <<19968,42124>>, <<42192,42237>>, <<42240,42508>>, <<42512,42539>>, <<42560,42606>>,
    <<42623,42653>>, <<42656,42735>>, <<42775,42783>>, <<42786,42888>>, <<42891,42954>>, <<42960,42961>>,
    <<42963,42963>>, <<42965,42969>>, <<42994,43009>>, <<43011,43013>>, <<43015,43018>>, <<43020,43042>>,
    <<43056,43061>>, <<43072,43123>>, <<43138,43187>>, <<43216,43225>>, <<43250,43255>>, <<43259,43259>>,
    <<43261,43262>>, <<43264,43301>>, <<43312,43334>>, <<43360,43388>>, <<43396,43442>>, <<43471,43481>>,
    <<43488,43492>>, <<43494,43518>>, <<43520,43560>>, <<43584,43586>>, <<43588,43595>>, <<43600,43609>>,
    <<43616,43638>>, <<43642,43642>>, <<43646,43695>>, <<43697,43697>>, <<43701,43702>>, <<43705,43709>>,
    <<43712,43712>>, <<43714,43714>>, <<43739,43741>>, <<43744,43754>>, <<43762,43764>>, <<43777,43782>>,
    <<43785,43790>>, <<43793,43798>>, <<43808,43814>>, <<43816,43822>>, <<43824,43866>>, <<43868,43881>>,
    <<43888,44002>>, <<44016,44025>>, <<44032,55203>>, <<55216,55238>>, <<55243,55291>>, <<63744,64109>>,
    <<64112,64217>>, <<64256,64262>>, <<64275,64279>>, <<64285,64285>>, <<64287,64296>>, <<64298,64310>>,
    <<64312,64316>>, <<64318,64318>>, <<64320,64321>>, <<64323,64324>>, <<64326,64433>>, <<64467,64829>>,
    <<64848,64911>>, <<64914,64967>>, <<65008,65019>>, <<65136,65140>>, <<65142,65276>>, <<65296,65305>>,
    <<65313,65338>>, <<65345,65370>>, <<65382,65470>>, <<65474,65479>>, <<65482,65487>>, <<65490,65495>>,
    <<65498,65500>>, <<65536,65547>>, <<65549,65574>>, <<65576,65594>>, <<65596,65597>>, <<65599,65613>>,
    <<65616,65629>>, <<65664,65786>>, <<65799,65843>>, <<65856,65912>>, <<65930,65931>>, <<66176,66204>>,
    <<66208,66256>>, <<66273,66299>>, <<66304,66339>>, <<66349,66378>>, <<66384,66421>>, <<66432,66461>>,
    <<66464,66499>>, <<66504,66511>>, <<66513,66517>>, <<66560,66717>>, <<66720,66729>>, <<66736,66771>>,
    <<66776,66811>>, <<66816,66855>>, <<66864,66915>>, <<66928,66938>>, <<66940,66954>>, <<66956,66962>>,
    <<66964,66965>>, <<66967,66977>>, <<66979,66993>>, <<66995,67001>>, <<67003,67004>>, <<67072,67382>>,
    <<67392,67413>>, <<67424,67431>>, <<67456,67461>>, <<67463,67504>>, <<67506,67514>>, <<67584,67589>>,
    <<67592,67592>>, <<67594,67637>>, <<67639,67640>>, <<67644,67644>>, <<67647,67669>>, <<67672,67702>>,
    <<67705,67742>>, <<67751,67759>>, <<67808,67826>>, <<67828,67829>>, <<67835,67867>>, <<67872,67897>>,
    <<67968,68023>>, <<68028,68047>>, <<68050,68096>>, <<68112,68115>>, <<68117,68119>>, <<68121,68149>>,
    <<68160,68168>>, <<68192,68222>>, <<68224,68255>>, <<68288,68295>>, <<68297,68324>>, <<68331,68335>>,
    <<68352,68405>>, <<68416,68437>>, <<68440,68466>>, <<68472,68497>>, <<68521,68527>>, <<68608,68680>>,
    <<68736,68786>>, <<68800,68850>>, <<68858,68899>>, <<68912,68921>>, <<69216,69246>>, <<69248,69289>>,
    <<69296,69297>>, <<69376,69415>>, <<69424,69445>>, <<69457,69460>>, <<69488,69505>>, <<69552,69579>>,
    <<69600,69622>>, <<69635,69687>>, <<69714,69743>>, <<69745,69746>>, <<69749,69749>>, <<69763,69807>>,
    <<69840,69864>>, <<69872,69881>>, <<69891,69926>>, <<69942,69951>>, <<69956,69956>>, <<69959,69959>>,
    <<69968,70002>>, <<70006,70006>>, <<70019,70066>>, <<70081,70084>>, <<70096,70106>>, <<70108,70108>>,
    <<70113,70132>>, <<70144,70161>>, <<70163,70187>>, <<70272,70278>>, <<70280,70280>>, <<70282,70285>>,
    <<70287,70301>>, <<70303,70312>>, <<70320,70366>>, <<70384,70393>>, <<70405,70412>>, <<70415,70416>>,
    <<70419,70440>>, <<70442,70448>>, <<70450,70451>>, <<70453,70457>>, <<70461,70461>>, <<70480,70480>>,
    <<70493,70497>>, <<70656,70708>>, <<70727,70730>>, <<70736,70745>>, <<70751,70753>>, <<70784,70831>>,
    <<70852,70853>>, <<70855,70855>>, <<70864,70873>>, <<71040,71086>>, <<71128,71131>>, <<71168,71215>>,
    <<71236,71236>>, <<71248,71257>>, <<71296,71338>>, <<71352,71352>>, <<71360,71369>>, <<71424,71450>>,
    <<71472,71483>>, <<71488,71494>>, <<71680,71723>>, <<71840,71922>>, <<71935,71942>>, <<71945,71945>>,
    <<71948,71955>>, <<71957,71958>>, <<71960,71983>>, <<71999,71999>>, <<72001,72001>>, <<72016,72025>>,
    <<72096,72103>>, <<72106,72144>>, <<72161,72161>>, <<72163,72163>>, <<72192,72192>>, <<72203,72242>>,
    <<72250,72250>>, <<72272,72272>>, <<72284,72329>>, <<72349,72349>>, <<72368,72440>>, <<72704,72712>>,
    <<72714,72750>>, <<72768,72768>>, <<72784,72812>>, <<72818,72847>>, <<72960,72966>>, <<72968,72969>>,
    <<72971,73008>>, <<73030,73030>>, <<73040,73049>>, <<73056,73061>>, <<73063,73064>>, <<73066,73097>>,
    <<73112,73112>>, <<73120,73129>>, <<73440,73458>>, <<73648,73648>>, <<73664,73684>>, <<73728,74649>>,
    <<74752,74862>>, <<74880,75075>>, <<77712,77808>>, <<77824,78894>>, <<82944,83526>>, <<92160,92728>>,
    <<92736,92766>>, <<92768,92777>>, <<92784,92862>>, <<92864,92873>>, <<92880,92909>>, <<92928,92975>>,
    <<92992,92995>>, <<93008,93017>>, <<93019,93025>>, <<93027,93047>>, <<93053,93071>>, <<93760,93846>>,
    <<93952,94026>>, <<94032,94032>>, <<94099,94111>>, <<94176,94177>>, <<94179,94179>>, <<94208,100343>>,
    <<100352,101589>>, <<101632,101640>>, <<110576,110579>>, <<110581,110587>>, <<110589,110590>>, <<110592,110882>>,
    <<110928,110930>>, <<110948,110951>>, <<110960,111355>>, <<113664,113770>>, <<113776,113788>>, <<113792,113800>>,
    <<113808,113817>>, <<119520,119539>>, <<119648,119672>>, <<119808,119892>>, <<119894,119964>>, <<119966,119967>>,
    <<119970,119970>>, <<119973,119974>>, <<119977,119980>>, <<119982,119993>>, <<119995,119995>>, <<119997,120003>>,
    <<120005,120069>>, <<120071,120074>>, <<120077,120084>>, <<120086,120092>>, <<120094,120121>>, <<120123,120126>>,
    <<120128,120132>>, <<120134,120134>>, <<120138,120144>>, <<120146,120485>>, <<120488,120512>>, <<120514,120538>>,
    <<120540,120570>>, <<120572,120596>>, <<120598,120628>>, <<120630,120654>>, <<120656,120686>>, <<120688,120712>>,
    <<120714,120744>>, <<120746,120770>>, <<120772,120779>>, <<120782,120831>>, <<122624,122654>>, <<123136,123180>>,
    <<123191,123197>>, <<123200,123209>>, <<123214,123214>>, <<123536,123565>>, <<123584,123627>>, <<123632,123641>>,
    <<124896,124902>>, <<124904,124907>>, <<124909,124910>>, <<124912,124926>>, <<124928,125124>>, <<125127,125135>>,
    <<125184,125251>>, <<125259,125259>>, <<125264,125273>>, <<126065,126123>>, <<126125,126127>>, <<126129,126132>>,
    <<126209,126253>>, <<126255,126269>>, <<126464,126467>>, <<126469,126495>>, <<126497,126498>>, <<126500,126500>>,
    <<126503,126503>>, <<126505,126514>>, <<126516,126519>>, <<126521,126521>>, <<126523,126523>>, <<126530,126530>>,
    <<126535,126535>>, <<126537,126537>>, <<126539,126539>>, <<126541,126543>>, <<126545,126546>>, <<126548,126548>>,
    <<126551,126551>>, <<126553,126553>>, <<126555,126555>>, <<126557,126557>>, <<126559,126559>>, <<126561,126562>>,
    <<126564,126564>>, <<126567,126570>>, <<126572,126578>>, <<126580,126583>>, <<126585,126588>>, <<126590,126590>>,
    <<126592,126601>>, <<126603,126619>>, <<126625,126627>>, <<126629,126633>>, <<126635,126651>>, <<127232,127244>>,
    <<130032,130041>>, <<131072,173791>>, <<173824,177976>>, <<177984,178205>>, <<178208,183969>>, <<183984,191456>>,
    <<194560,195101>>, <<196608,201546>>
  >>
IsWord(c) ==
    IF c < 128
    THEN (48 <= c /\ c <= 57) \/ (65 <= c /\ c <= 90) \/ (97 <= c /\ c <= 122) \/ c = 95
    ELSE InRanges(c, WordRanges)

\* regex \s on str and the whitespace of str.strip(): str.isspace()
SpaceChars ==
    {9, 10, 11, 12, 13, 28, 29, 30, 31, 32, 133, 160, 5760, 8192, 8193, 8194,
     8195, 8196, 8197, 8198, 8199, 8200, 8201, 8202, 8232, 8233, 8239, 8287, 12288}
IsSpace(c) == c \in SpaceChars

\* str.lower() of a single character that becomes a single character:
\* <<lo, hi, step, delta>> lowers lo, lo + step, ..., hi by adding delta
LowerRanges ==
  <<
    <<65,90,1,32>>, <<192,214,1,32>>, <<216,222,1,32>>, <<256,302,2,1>>, <<306,310,2,1>>,
    <<313,327,2,1>>, <<330,374,2,1>>, <<376,376,1,-121>>, <<377,381,2,1>>, <<385,385,1,210>>,
    <<386,388,2,1>>, <<390,390,1,206>>, <<391,391,1,1>>, <<393,394,1,205>>, <<395,395,1,1>>,
    <<398,398,1,79>>, <<399,399,1,202>>, <<400,400,1,203>>, <<401,401,1,1>>, <<403,403,1,205>>,
    <<404,404,1,207>>, <<406,406,1,211>>, <<407,407,1,209>>, <<408,408,1,1>>, <<412,412,1,211>>,
    <<413,413,1,213>>, <<415,415,1,214>>, <<416,420,2,1>>, <<422,422,1,218>>, <<423,423,1,1>>,
    <<425,425,1,218>>, <<428,428,1,1>>, <<430,430,1,218>>, <<431,431,1,1>>, <<433,434,1,217>>,
    <<435,437,2,1>>, <<439,439,1,219>>, <<440,440,1,1>>, <<444,444,1,1>>, <<452,452,1,2>>,
    <<453,453,1,1>>, <<455,455,1,2>>, <<456,456,1,1>>, <<458,458,1,2>>, <<459,475,2,1>>,
    <<478,494,2,1>>, <<497,497,1,2>>, <<498,500,2,1>>, <<502,502,1,-97>>, <<503,503,1,-56>>,
    <<504,542,2,1>>, <<544,544,1,-130>>, <<546,562,2,1>>, <<570,570,1,10795>>, <<571,571,1,1>>,
    <<573,573,1,-163>>, <<574,574,1,10792>>, <<577,577,1,1>>, <<579,579,1,-195>>, <<580,580,1,69>>,
    <<581,581,1,71>>, <<582,590,2,1>>, <<880,882,2,1>>, <<886,886,1,1>>, <<895,895,1,116>>,
    <<902,902,1,38>>, <<904,906,1,37>>, <<908,908,1,64>>, <<910,911,1,63>>, <<913,929,1,32>>,
    <<931,939,1,32>>, <<975,975,1,8>>, <<984,1006,2,1>>, <<1012,1012,1,-60>>, <<1015,1015,1,1>>,
    <<1017,1017,1,-7>>, <<1018,1018,1,1>>, <<1021,1023,1,-130>>, <<1024,1039,1,80>>, <<1040,1071,1,32>>,
    <<1120,1152,2,1>>, <<1162,1214,2,1>>, <<1216,1216,1,15>>, <<1217,1229,2,1>>, <<1232,1326,2,1>>,
    <<1329,1366,1,48>>, <<4256,4293,1,7264>>, <<4295,4295,1,7264>>, <<4301,4301,1,7264>>, <<5024,5103,1,38864>>,
    <<5104,5109,1,8>>, <<7312,7354,1,-3008>>, <<7357,7359,1,-3008>>, <<7680,7828,2,1>>, <<7838,7838,1,-7615>>,
    <<7840,7934,2,1>>, <<7944,7951,1,-8>>, <<7960,7965,1,-8>>, <<7976,7983,1,-8>>, <<7992,7999,1,-8>>,
    <<8008,8013,1,-8>>, <<8025,8031,2,-8>>, <<8040,8047,1,-8>>, <<8072,8079,1,-8>>, <<8088,8095,1,-8>>,
    <<8104,8111,1,-8>>, <<8120,8121,1,-8>>, <<8122,8123,1,-74>>, <<8124,8124,1,-9>>, <<8136,8139,1,-86>>,
    <<8140,8140,1,-9>>, <<8152,8153,1,-8>>, <<8154,8155,1,-100>>, <<8168,8169,1,-8>>, <<8170,8171,1,-112>>,
    <<8172,8172,1,-7>>, <<8184,8185,1,-128>>, <<8186,8187,1,-126>>, <<8188,8188,1,-9>>, <<8486,8486,1,-7517>>,
    <<8490,8490,1,-8383>>, <<8491,8491,1,-8262>>, <<8498,8498,1,28>>, <<8544,8559,1,16>>, <<8579,8579,1,1>>,
    <<9398,9423,1,26>>, <<11264,11311,1,48>>, <<11360,11360,1,1>>, <<11362,11362,1,-10743>>, <<11363,11363,1,-3814>>,
    <<11364,11364,1,-10727>>, <<11367,11371,2,1>>, <<11373,11373,1,-10780>>, <<11374,11374,1,-10749>>, <<11375,11375,1,-10783>>,
    <<11376,11376,1,-10782>>, <<11378,11378,1,1>>, <<11381,11381,1,1>>, <<11390,11391,1,-10815>>, <<11392,11490,2,1>>,
    <<11499,11501,2,1>>, <<11506,11506,1,1>>, <<42560,42604,2,1>>, <<42624,42650,2,1>>, <<42786,42798,2,1>>,
    <<42802,42862,2,1>>, <<42873,42875,2,1>>, <<42877,42877,1,-35332>>, <<42878,42886,2,1>>, <<42891,42891,1,1>>,
    <<42893,42893,1,-42280>>, <<42896,42898,2,1>>, <<42902,42920,2,1>>, <<42922,42922,1,-42308>>, <<42923,42923,1,-42319>>,
    <<42924,42924,1,-42315>>, <<42925,42925,1,-42305>>, <<42926,42926,1,-42308>>, <<42928,42928,1,-42258>>, <<42929,42929,1,-42282>>,
    <<42930,42930,1,-42261>>, <<42931,42931,1,928>>, <<42932,42946,2,1>>, <<42948,42948,1,-48>>, <<42949,42949,1,-42307>>,
    <<42950,42950,1,-35384>>, <<42951,42953,2,1>>, <<42960,42960,1,1>>, <<42966,42968,2,1>>, <<42997,42997,1,1>>,
    <<65313,65338,1,32>>, <<66560,66599,1,40>>, <<66736,66771,1,40>>, <<66928,66964,2,39>>, <<66929,66938,1,39>>,
    <<66941,66954,1,39>>, <<66957,66962,1,39>>, <<66965,66965,1,39>>, <<68736,68786,1,64>>, <<71840,71871,1,32>>,
    <<93760,93791,1,32>>, <<125184,125217,1,34>>
  >>
LowerOne(c) ==
    IF c < 128 THEN (IF 65 <= c /\ c <= 90 THEN c + 32 ELSE c)
    ELSE IF \E i \in DOMAIN LowerRanges :
               /\ LowerRanges[i][1] <= c /\ c <= LowerRanges[i][2]
               /\ (c - LowerRanges[i][1]) % LowerRanges[i][3] = 0
    THEN LET i == CHOOSE i \in DOMAIN LowerRanges :
                     /\ LowerRanges[i][1] <= c /\ c <= LowerRanges[i][2]
                     /\ (c - LowerRanges[i][1]) % LowerRanges[i][3] = 0
         IN c + LowerRanges[i][4]
    ELSE c

\* str.lower() of a capital sigma depends on its place: the characters that
\* are skipped on either side of it (case-ignorable) and, of the others, those
\* that are cased
IgnorableRanges ==
  <<
    <<39,39>>, <<46,46>>, <<58,58>>, <<94,94>>, <<96,96>>, <<168,168>>,
    <<173,173>>, <<175,175>>, <<180,180>>, <<183,184>>, <<688,879>>, <<884,885>>,
    <<890,890>>, <<900,901>>, <<903,903>>, <<1155,1161>>, <<1369,1369>>, <<1375,1375>>,
    <<1425,1469>>, <<1471,1471>>, <<1473,1474>>, <<1476,1477>>, <<1479,1479>>, <<1524,1524>>,
    <<1536,1541>>, <<1552,1562>>, <<1564,1564>>, <<1600,1600>>, <<1611,1631>>, <<1648,1648>>,
    <<1750,1757>>, <<1759,1768>>, <<1770,1773>>, <<1807,1807>>, <<1809,1809>>, <<1840,1866>>,
    <<1958,1968>>, <<2027,2037>>, <<2042,2042>>, <<2045,2045>>, <<2070,2093>>, <<2137,2139>>,
    <<2184,2184>>, <<2192,2193>>, <<2200,2207>>, <<2249,2306>>, <<2362,2362>>, <<2364,2364>>,
    <<2369,2376>>, <<2381,2381>>, <<2385,2391>>, <<2402,2403>>, <<2417,2417>>, <<2433,2433>>,
    <<2492,2492>>, <<2497,2500>>, <<2509,2509>>, <<2530,2531>>, <<2558,2558>>, <<2561,2562>>,
    <<2620,2620>>, <<2625,2626>>, <<2631,2632>>, <<2635,2637>>, <<2641,2641>>, <<2672,2673>>,
    <<2677,2677>>, <<2689,2690>>, <<2748,2748>>, <<2753,2757>>, <<2759,2760>>, <<2765,2765>>,
    <<2786,2787>>, <<2810,2815>>, <<2817,2817>>, <<2876,2876>>, <<2879,2879>>, <<2881,2884>>,
    <<2893,2893>>, <<2901,2902>>, <<2914,2915>>, <<2946,2946>>, <<3008,3008>>, <<3021,3021>>,
    <<3072,3072>>, <<3076,3076>>, <<3132,3132>>, <<3134,3136>>, <<3142,3144>>, <<3146,3149>>,
    <<3157,3158>>, <<3170,3171>>, <<3201,3201>>, <<3260,3260>>, <<3263,3263>>, <<3270,3270>>,
    <<3276,3277>>, <<3298,3299>>, <<3328,3329>>, <<3387,3388>>, <<3393,3396>>, <<3405,3405>>,
    <<3426,3427>>, <<3457,3457>>, <<3530,3530>>, <<3538,3540>>, <<3542,3542>>, <<3633,3633>>,
    <<3636,3642>>, <<3654,3662>>, <<3761,3761>>, <<3764,3772>>, <<3782,3782>>, <<3784,3789>>,
    <<3864,3865>>, <<3893,3893>>, <<3895,3895>>, <<3897,3897>>, <<3953,3966>>, <<3968,3972>>,
    <<3974,3975>>, <<3981,3991>>, <<3993,4028>>, <<4038,4038>>, <<4141,4144>>, <<4146,4151>>,
    <<4153,4154>>, <<4157,4158>>, <<4184,4185>>, <<4190,4192>>, <<4209,4212>>, <<4226,4226>>,
    <<4229,4230>>, <<4237,4237>>, <<4253,4253>>, <<4348,4348>>, <<4957,4959>>, <<5906,5908>>,
    <<5938,5939>>, <<5970,5971>>, <<6002,6003>>, <<6068,6069>>, <<6071,6077>>, <<6086,6086>>,
    <<6089,6099>>, <<6103,6103>>, <<6109,6109>>, <<6155,6159>>, <<6211,6211>>, <<6277,6278>>,
    <<6313,6313>>, <<6432,6434>>, <<6439,6440>>, <<6450,6450>>, <<6457,6459>>, <<6679,6680>>,
    <<6683,6683>>, <<6742,6742>>, <<6744,6750>>, <<6752,6752>>, <<6754,6754>>, <<6757,6764>>,
    <<6771,6780>>, <<6783,6783>>, <<6823,6823>>, <<6832,6862>>, <<6912,6915>>, <<6964,6964>>,
    <<6966,6970>>, <<6972,6972>>, <<6978,6978>>, <<7019,7027>>, <<7040,7041>>, <<7074,7077>>,
    <<7080,7081>>, <<7083,7085>>, <<7142,7142>>, <<7144,7145>>, <<7149,7149>>, <<7151,7153>>,
    <<7212,7219>>, <<7222,7223>>, <<7288,7293>>, <<7376,7378>>, <<7380,7392>>, <<7394,7400>>,
    <<7405,7405>>, <<7412,7412>>, <<7416,7417>>, <<7468,7530>>, <<7544,7544>>, <<7579,7679>>,
    <<8125,8125>>, <<8127,8129>>, <<8141,8143>>, <<8157,8159>>, <<8173,8175>>, <<8189,8190>>,
    <<8203,8207>>, <<8216,8217>>, <<8228,8228>>, <<8231,8231>>, <<8234,8238>>, <<8288,8292>>,
    <<8294,8303>>, <<8305,8305>>, <<8319,8319>>, <<8336,8348>>, <<8400,8432>>, <<11388,11389>>,
    <<11503,11505>>, <<11631,11631>>, <<11647,11647>>, <<11744,11775>>, <<11823,11823>>, <<12293,12293>>,
    <<12330,12333>>, <<12337,12341>>, <<12347,12347>>, <<12441,12446>>, <<12540,12542>>, <<40981,40981>>,
    <<42232,42237>>, <<42508,42508>>, <<42607,42610>>, <<42612,42621>>, <<42623,42623>>, <<42652,42655>>,
    <<42736,42737>>, <<42752,42785>>, <<42864,42864>>, <<42888,42890>>, <<42994,42996>>, <<43000,43001>>,
    <<43010,43010>>, <<43014,43014>>, <<43019,43019>>, <<43045,43046>>, <<43052,43052>>, <<43204,43205>>,
    <<43232,43249>>, <<43263,43263>>, <<43302,43309>>, <<43335,43345>>, <<43392,43394>>, <<43443,43443>>,
    <<43446,43449>>, <<43452,43453>>, <<43471,43471>>, <<43493,43494>>, <<43561,43566>>, <<43569,43570>>,
    <<43573,43574>>, <<43587,43587>>, <<43596,43596>>, <<43632,43632>>, <<43644,43644>>, <<43696,43696>>,
    <<43698,43700>>, <<43703,43704>>, <<43710,43711>>, <<43713,43713>>, <<43741,43741>>, <<43756,43757>>,
    <<43763,43764>>, <<43766,43766>>, <<43867,43871>>, <<43881,43883>>, <<44005,44005>>, <<44008,44008>>,
    <<44013,44013>>, <<64286,64286>>, <<64434,64450>>, <<65024,65039>>, <<65043,65043>>, <<65056,65071>>,
    <<65106,65106>>, <<65109,65109>>, <<65279,65279>>, <<65287,65287>>, <<65294,65294>>, <<65306,65306>>,
    <<65342,65342>>, <<65344,65344>>, <<65392,65392>>, <<65438,65439>>, <<65507,65507>>, <<65529,65531>>,
    <<66045,66045>>, <<66272,66272>>, <<66422,66426>>, <<67456,67461>>, <<67463,67504>>, <<67506,67514>>,
    <<68097,68099>>, <<68101,68102>>, <<68108,68111>>, <<68152,68154>>, <<68159,68159>>, <<68325,68326>>,
    <<68900,68903>>, <<69291,69292>>, <<69446,69456>>, <<69506,69509>>, <<69633,69633>>, <<69688,69702>>,
    <<69744,69744>>, <<69747,69748>>, <<69759,69761>>, <<69811,69814>>, <<69817,69818>>, <<69821,69821>>,
    <<69826,69826>>, <<69837,69837>>, <<69888,69890>>, <<69927,69931>>, <<69933,69940>>, <<70003,70003>>,
    <<70016,70017>>, <<70070,70078>>, <<70089,70092>>, <<70095,70095>>, <<70191,70193>>, <<70196,70196>>,
    <<70198,70199>>, <<70206,70206>>, <<70367,70367>>, <<70371,70378>>, <<70400,70401>>, <<70459,70460>>,
    <<70464,70464>>, <<70502,70508>>, <<70512,70516>>, <<70712,70719>>, <<70722,70724>>, <<70726,70726>>,
    <<70750,70750>>, <<70835,70840>>, <<70842,70842>>, <<70847,70848>>, <<70850,70851>>, <<71090,71093>>,
    <<71100,71101>>, <<71103,71104>>, <<71132,71133>>, <<71219,71226>>, <<71229,71229>>, <<71231,71232>>,
    <<71339,71339>>, <<71341,71341>>, <<71344,71349>>, <<71351,71351>>, <<71453,71455>>, <<71458,71461>>,
    <<71463,71467>>, <<71727,71735>>, <<71737,71738>>, <<71995,71996>>, <<71998,71998>>, <<72003,72003>>,
    <<72148,72151>>, <<72154,72155>>, <<72160,72160>>, <<72193,72202>>, <<72243,72248>>, <<72251,72254>>,
    <<72263,72263>>, <<72273,72278>>, <<72281,72283>>, <<72330,72342>>, <<72344,72345>>, <<72752,72758>>,
    <<72760,72765>>, <<72767,72767>>, <<72850,72871>>, <<72874,72880>>, <<72882,72883>>, <<72885,72886>>,
    <<73009,73014>>, <<73018,73018>>, <<73020,73021>>, <<73023,73029>>, <<73031,73031>>, <<73104,73105>>,
    <<73109,73109>>, <<73111,73111>>, <<73459,73460>>, <<78896,78904>>, <<92912,92916>>, <<92976,92982>>,
    <<92992,92995>>, <<94031,94031>>, <<94095,94111>>, <<94176,94177>>, <<94179,94180>>, <<110576,110579>>,
    <<110581,110587>>, <<110589,110590>>, <<113821,113822>>, <<113824,113827>>, <<118528,118573>>, <<118576,118598>>,
    <<119143,119145>>, <<119155,119170>>, <<119173,119179>>, <<119210,119213>>, <<119362,119364>>, <<121344,121398>>,
    <<121403,121452>>, <<121461,121461>>, <<121476,121476>>, <<121499,121503>>, <<121505,121519>>, <<122880,122886>>,
    <<122888,122904>>, <<122907,122913>>, <<122915,122916>>, <<122918,122922>>, <<123184,123197>>, <<123566,123566>>,
    <<123628,123631>>, <<125136,125142>>, <<125252,125259>>, <<127995,127999>>, <<917505,917505>>, <<917536,917631>>,
    <<917760,917999>>
  >>
CasedRanges ==
  <<
    <<65,90>>, <<97,122>>, <<170,170>>, <<181,181>>, <<186,186>>, <<192,214>>,
    <<216,246>>, <<248,442>>, <<444,447>>, <<452,659>>, <<661,687>>, <<880,883>>,
    <<886,887>>, <<891,893>>, <<895,895>>, <<902,902>>, <<904,906>>, <<908,908>>,
    <<910,929>>, <<931,1013>>, <<1015,1153>>, <<1162,1327>>, <<1329,1366>>, <<1376,1416>>,
    <<4256,4293>>, <<4295,4295>>, <<4301,4301>>, <<4304,4346>>, <<4349,4351>>, <<5024,5109>>,
    <<5112,5117>>, <<7296,7304>>, <<7312,7354>>, <<7357,7359>>, <<7424,7467>>, <<7531,7543>>,
    <<7545,7578>>, <<7680,7957>>, <<7960,7965>>, <<7968,8005>>, <<8008,8013>>, <<8016,8023>>,
    <<8025,8025>>, <<8027,8027>>, <<8029,8029>>, <<8031,8061>>, <<8064,8116>>, <<8118,8124>>,
    <<8126,8126>>, <<8130,8132>>, <<8134,8140>>, <<8144,8147>>, <<8150,8155>>, <<8160,8172>>,
    <<8178,8180>>, <<8182,8188>>, <<8450,8450>>, <<8455,8455>>, <<8458,8467>>, <<8469,8469>>,
    <<8473,8477>>, <<8484,8484>>, <<8486,8486>>, <<8488,8488>>, <<8490,8493>>, <<8495,8500>>,
    <<8505,8505>>, <<8508,8511>>, <<8517,8521>>, <<8526,8526>>, <<8544,8575>>, <<8579,8580>>,
    <<9398,9449>>, <<11264,11387>>, <<11390,11492>>, <<11499,11502>>, <<11506,11507>>, <<11520,11557>>,
    <<11559,11559>>, <<11565,11565>>, <<42560,42605>>, <<42624,42651>>, <<42786,42863>>, <<42865,42887>>,
    <<42891,42894>>, <<42896,42954>>, <<42960,42961>>, <<42963,42963>>, <<42965,42969>>, <<42997,42998>>,
    <<43002,43002>>, <<43824,43866>>, <<43872,43880>>, <<43888,43967>>, <<64256,64262>>, <<64275,64279>>,
    <<65313,65338>>, <<65345,65370>>, <<66560,66639>>, <<66736,66771>>, <<66776,66811>>, <<66928,66938>>,
    <<66940,66954>>, <<66956,66962>>, <<66964,66965>>, <<66967,66977>>, <<66979,66993>>, <<66995,67001>>,
    <<67003,67004>>, <<68736,68786>>, <<68800,68850>>, <<71840,71903>>, <<93760,93823>>, <<119808,119892>>,
    <<119894,119964>>, <<119966,119967>>, <<119970,119970>>, <<119973,119974>>, <<119977,119980>>, <<119982,119993>>,
    <<119995,119995>>, <<119997,120003>>, <<120005,120069>>, <<120071,120074>>, <<120077,120084>>, <<120086,120092>>,
    <<120094,120121>>, <<120123,120126>>, <<120128,120132>>, <<120134,120134>>, <<120138,120144>>, <<120146,120485>>,
    <<120488,120512>>, <<120514,120538>>, <<120540,120570>>, <<120572,120596>>, <<120598,120628>>, <<120630,120654>>,
    <<120656,120686>>, <<120688,120712>>, <<120714,120744>>, <<120746,120770>>, <<120772,120779>>, <<122624,122633>>,
    <<122635,122654>>, <<125184,125251>>, <<127280,127305>>, <<127312,127337>>, <<127344,127369>>
  >>
Ignorable(c) == InRanges(c, IgnorableRanges)
Cased(c) == InRanges(c, CasedRanges)
CapitalSigma == 931
SmallSigma == 963
FinalSigma == 962
\* the nearest place before (dir = -1) or after (dir = 1) place i of text that
\* holds a character that is not skipped; 0 or Len(text) + 1 when there is none
RECURSIVE Nearest(_, _, _)
Nearest(text, i, dir) ==
    LET j == i + dir IN
    IF j < 1 \/ j > Len(text) THEN j
    ELSE IF Ignorable(text[j]) THEN Nearest(text, j, dir)
    ELSE j
\* a sigma that ends a word: a cased character before it and none after it
IsFinalSigma(text, i) ==
    LET b == Nearest(text, i, -1)
        a == Nearest(text, i, 1)
    IN /\ b >= 1 /\ Cased(text[b])
       /\ a > Len(text) \/ ~Cased(text[a])

\* what str.lower() makes of the character at place i of text
LowerChar(text, i) ==
    LET c == text[i] IN
    IF c = CapitalSigma
    THEN (IF IsFinalSigma(text, i) THEN <<FinalSigma>> ELSE <<SmallSigma>>)
    ELSE IF c = 304 THEN <<105, 775>>
    ELSE <<LowerOne(c)>>

RECURSIVE LowerFrom(_, _)
LowerFrom(text, i) ==
    IF i > Len(text) THEN <<>> ELSE LowerChar(text, i) \o LowerFrom(text, i + 1)

\* mutant: the body is searched as it came, upper case kept
LowerKeepsCase(text) == text
\* str.lower()
Lower(text) == LowerFrom(text, 1)

\* `needle in text`
Contains(text, needle) ==
    \E i \in 1..(Len(text) - Len(needle) + 1) :
        SubSeq(text, i, i + Len(needle) - 1) = needle

\* code_input.strip(): leading and trailing whitespace removed
RECURSIVE LStrip(_)
LStrip(text) ==
    IF text # <<>> /\ IsSpace(Head(text)) THEN LStrip(Tail(text)) ELSE text
RECURSIVE RStrip(_)
RStrip(text) ==
    IF text # <<>> /\ IsSpace(text[Len(text)])
    THEN RStrip(SubSeq(text, 1, Len(text) - 1)) ELSE text
Strip(text) == RStrip(LStrip(text))

\* mutant: \w for \w+, every word character a match of its own
WordEndAtOnce(text, i) == i

\* the end of the run of word characters that starts at i
RECURSIVE WordEnd(_, _)
WordEnd(text, i) ==
    IF i < Len(text) /\ IsWord(text[i + 1]) THEN WordEnd(text, i + 1) ELSE i

\* re.findall(r'\b\w+\b|[^\w\s]', text) scanned from position i: the number of matches
RECURSIVE FindAll(_, _)
FindAll(text, i) ==
    IF i > Len(text) THEN 0
    ELSE IF IsWord(text[i]) THEN 1 + FindAll(text, WordEnd(text, i) + 1)
    ELSE IF ~IsSpace(text[i]) THEN 1 + FindAll(text, i + 1)
    ELSE FindAll(text, i + 1)

estimate_token_count(text) == FindAll(text, 1)

\* -------------------------------------------------------------- the inputs
SnippetX == <<120>>            \* "x"
SnippetCall == <<102, 40, 41>>  \* "f()"
SnippetBlank == <<5760, 10>>   \* U+1680 and a newline: whitespace only
Snippets == {SnippetX, SnippetCall, SnippetBlank}

\* hashlib.md5(code.encode()).hexdigest() of the snippets above
cache_key(c) ==
    CASE c = SnippetX     -> "9dd4e461268c8034f5c8564e155c67a6"
      [] c = SnippetCall  -> "506f353d3ef92d51f3e57bae99367caf"
      [] c = SnippetBlank -> "96a99bc084c0ea9f6fc07ff70bad45dc"
CacheKeys == {cache_key(c) : c \in Snippets}

NoResult == [kind |-> "absent"]
Nothing == [kind |-> "nothing"]
\* app.py:33-34, 131-132: the buttons a run of main() draws: Clear History when
\* the history is not empty as the sidebar is filled, and one button for each
\* entry the history has when the run reaches its end
NoButtons == [clear |-> FALSE, entries |-> 0]
Drawn(h) == [clear |-> h # <<>>, entries |-> Len(h)]
NoCall == [kind |-> "no call"]

\* what the server or the network does on one requests.post
TextOk == <<111, 107, 46>>      \* "ok."
TextNo == <<110, 111>>          \* "no"
TextModelX == <<77, 111, 100, 101, 108, 32, 120>>  \* "Model x"
Text404 == <<52, 48, 52>>  \* "404"
TextErr == <<101, 114, 114>>  \* "err"
Body(status, has, text) ==
    [type |-> "response", status |-> status, json |-> "object", has |-> has, text |-> text]
\* a body that is no JSON ("invalid", as '<html>'), JSON but no object
\* ("array", as '[1, 2]'), or a JSON object whose "response" field is there
\* and is no string ("nonstring", as '{"response": null}'); json = "object" is
\* kept for the JSON object whose "response" field is a string or is missing
BadBody(status, json) ==
    [type |-> "response", status |-> status, json |-> json, has |-> json = "nonstring",
     text |-> <<>>]
Raises(type) == [type |-> type, status |-> 0, json |-> "", has |-> FALSE, text |-> <<>>]
Outcomes ==
    { Body(200, TRUE, TextOk), Body(200, FALSE, <<>>),
      BadBody(200, "invalid"), BadBody(200, "array"), BadBody(200, "nonstring"),
      Body(404, FALSE, TextModelX),
      Body(404, FALSE, Text404),
      Body(429, FALSE, <<>>),
      Body(500, FALSE, TextErr),
      Raises("ConnectionError"), Raises("Timeout"), Raises("Exception") }

\* the whole seconds a requests.post may take
PostSeconds == {0, 1}

\* the outcomes the session is run against
AppOutcomes ==
    { Body(200, TRUE, TextOk), Body(200, TRUE, TextNo), BadBody(200, "invalid"),
      Body(429, FALSE, <<>>), Raises("ConnectionError") }

\* the name an outcome has in the trace
Tag(o) == IF o.type = "response" THEN ToString(o.status) ELSE o.type

\* "No analysis provided"
NoAnalysis == <<78, 111, 32, 97, 110, 97, 108, 121, 115, 105, 115, 32,
                112, 114, 111, 118, 105, 100, 101, 100>>

\* ------------------------------------------------------------------- Init
InitRL ==
    /\ now = 0
    /\ calls = [k \in Keys |-> <<>>]
    /\ lock = NoThread
    /\ pc = [t \in Threads |-> "idle"]
    /\ key = [t \in Threads |-> "codellama"]
    /\ tnow = [t \in Threads |-> 0]
    /\ ret = [t \in Threads |-> FALSE]
    /\ waiting = [t \in Threads |-> FALSE]
    /\ seen = [t \in Threads |-> <<>>]
    /\ admitted = [k \in Keys |-> <<>>]
    /\ streak = [k \in Keys |-> NoStreak]

InitApp ==
    /\ cache = [k \in CacheKeys |-> NoResult]
    /\ history = <<>>
    /\ shown = Nothing
    /\ buttons = NoButtons
    /\ code = <<>>
    /\ model = "codellama"
    /\ attempt = 0
    /\ start_time = 0
    /\ trace = <<>>
    /\ result = NoCall
    /\ before = <<>>

Init == InitRL /\ InitApp

\* the limiter is shared by the sessions of the process: a session may find a
\* key used up by max_calls calls other sessions made at time 0
UsedUp == [i \in 1..max_calls |-> 0]
InitUsed ==
    /\ InitApp
    /\ now = 0
    /\ lock = NoThread
    /\ pc = [t \in Threads |-> "idle"]
    /\ key = [t \in Threads |-> "codellama"]
    /\ tnow = [t \in Threads |-> 0]
    /\ ret = [t \in Threads |-> FALSE]
    /\ waiting = [t \in Threads |-> FALSE]
    /\ seen = [t \in Threads |-> <<>>]
    /\ streak = [k \in Keys |-> NoStreak]
    /\ \E used \in SUBSET {"codellama"} :
          /\ calls = [k \in Keys |-> IF k \in used THEN UsedUp ELSE <<>>]
          /\ admitted = calls

\* ------------------------------------------------------------ rate limiter
\* time passes
Advance(d) ==
    /\ now' = now + d
    /\ admitted' = [k \in Keys |-> TrailingWindow(admitted[k], now + d)]
    /\ streak' = [k \in Keys |->
                    IF streak[k] # NoStreak /\ now + d - streak[k].first >= period
                    THEN NoStreak ELSE streak[k]]

Tick ==
    /\ now < MaxTime
    /\ Advance(1)
    /\ UNCHANGED <<rlvars, appvars>>

\* can_call(k), lines 19-23: the lock is taken, the clock read, the old calls dropped
Enter(t, k) ==
    /\ LockFree
    /\ lock' = t
    /\ key' = [key EXCEPT ![t] = k]
    /\ tnow' = [tnow EXCEPT ![t] = now]
    /\ seen' = [seen EXCEPT ![t] = calls[k]]
    /\ calls' = [calls EXCEPT ![k] = Fresh(@, now)]
    /\ pc' = [pc EXCEPT ![t] = "check"]

\* mutant: the lock is still held when can_call returns
LeaveKeepsLock(t, ok) ==
    /\ ret' = [ret EXCEPT ![t] = ok]
    /\ lock' = lock
    /\ pc' = [pc EXCEPT ![t] = "ret"]
    /\ tnow' = [tnow EXCEPT ![t] = 0]
    /\ seen' = [seen EXCEPT ![t] = <<>>]
    /\ streak' = [streak EXCEPT ![key[t]] =
                    NextStreak(@, tnow[t], ok, calls[key[t]] = <<>>)]

\* what a returning can_call leaves behind
Leave(t, ok) ==
    /\ ret' = [ret EXCEPT ![t] = ok]
    /\ lock' = IF lock = t THEN NoThread ELSE lock
    /\ pc' = [pc EXCEPT ![t] = "ret"]
    /\ tnow' = [tnow EXCEPT ![t] = 0]
    /\ seen' = [seen EXCEPT ![t] = <<>>]
    /\ streak' = [streak EXCEPT ![key[t]] =
                    NextStreak(@, tnow[t], ok, calls[key[t]] = <<>>)]

\* a thread calls can_call(k)
CallCanCall(t, k) ==
    /\ pc[t] = "idle"
    /\ Enter(t, k)
    /\ UNCHANGED <<now, ret, waiting, admitted, streak, appvars>>

\* lines 26, 29: if len(self.calls[key]) < self.max_calls: ... ; return False
Check(t) ==
    /\ pc[t] = "check"
    /\ IF HasRoom(calls, key[t])
       THEN /\ pc' = [pc EXCEPT ![t] = "append"]
            /\ UNCHANGED <<lock, ret, tnow, seen, streak>>
       ELSE Leave(t, FALSE)
    /\ UNCHANGED <<now, calls, key, waiting, admitted, appvars>>

\* lines 27-28: self.calls[key].append(now); return True
AppendCall(t) ==
    /\ pc[t] = "append"
    /\ calls' = [calls EXCEPT ![key[t]] = Append(@, tnow[t])]
    /\ admitted' = [admitted EXCEPT ![key[t]] = TrailingWindow(Append(@, tnow[t]), now)]
    /\ Leave(t, TRUE)
    /\ UNCHANGED <<now, key, waiting, appvars>>

\* can_call has returned to a worker that called it directly
Return(t) ==
    /\ t \in Workers
    /\ pc[t] = "ret"
    /\ pc' = [pc EXCEPT ![t] = "idle"]
    /\ ret' = [ret EXCEPT ![t] = FALSE]
    /\ key' = [key EXCEPT ![t] = "codellama"]
    /\ UNCHANGED <<now, calls, lock, tnow, waiting, seen, admitted, streak, appvars>>

Next ==
    \/ Tick
    \/ \E t \in Workers, k \in Keys : CallCanCall(t, k)
    \/ \E t \in Workers : Check(t)
    \/ \E t \in Workers : AppendCall(t)
    \/ \E t \in Workers : Return(t)

Spec == Init /\ [][Next]_vars

\* ---------------------------------------------------------- analyze (ollama)
Sleep == [type |-> "sleep", status |-> 0, json |-> "", has |-> FALSE, text |-> <<>>]
Retry == [do |-> "retry"]
Raise(exc, msg, m, status, text) ==
    [do |-> "raise", exc |-> exc, msg |-> msg, model |-> m, status |-> status, text |-> text]

\* mutant: a 429 is retried whatever the attempt
RetryOn429Always(a) == TRUE
\* line 154
RetryOn429(a) == a < max_retries - 1
\* mutant: a timeout is retried whatever the attempt
RetryOnTimeoutAlways(a) == TRUE
\* line 167
RetryOnTimeout(a) == a < max_retries - 1
\* mutant: the last attempt's exception is swallowed like the earlier ones
RetryOnExceptionAlways(a) == TRUE
\* line 174
RetryOnException(a) == a < max_retries - 1

\* lines 121-161: the try block of attempt a, given what requests.post did
TryBody(o, m, a) ==
    IF o.type # "response" THEN Raise(o.type, o.type, "", 0, <<>>)
    ELSE IF o.status = 200
         THEN IF o.json = "invalid"
              THEN Raise("JSONDecodeError", "Expecting value: line 1 column 1 (char 0)", "", 0, <<>>)
              ELSE IF o.json = "array"
              THEN Raise("AttributeError", "'list' object has no attribute 'get'", "", 0, <<>>)
              ELSE IF o.json = "nonstring"
              THEN Raise("TypeError", "expected string or bytes-like object, got 'NoneType'", "", 0, <<>>)
              ELSE [do |-> "return", analysis |-> IF o.has THEN o.text ELSE NoAnalysis]
    ELSE IF o.status = 404
         THEN IF Contains(Lower(o.text), <<109, 111, 100, 101, 108>>)
              THEN Raise("Exception", "Model not found. Please select another model.", m, 0, <<>>)
              ELSE Raise("Exception", "API endpoint not found. Is Ollama running?", "", 0, <<>>)
    ELSE IF o.status = 429
         THEN IF RetryOn429(a) THEN Retry
              ELSE Raise("Exception", "Rate limit exceeded. Please try again later.", "", 0, <<>>)
    ELSE Raise("Exception", "API error", "", o.status, o.text)

\* mutant: a connection failure is retried like a timeout
OnConnectionErrorRetried(r, a) ==
    IF a < max_retries - 1 THEN Retry
    ELSE Raise("Exception", "Could not connect to Ollama. Please make sure Ollama is running locally.",
               "", 0, <<>>)

\* mutant: the message is returned as the analysis instead of being raised
OnConnectionErrorReturned(r, a) ==
    [do |-> "return", analysis |-> TextNo]

\* line 164
OnConnectionError(r, a) ==
    Raise("Exception", "Could not connect to Ollama. Please make sure Ollama is running locally.",
          "", 0, <<>>)

\* lines 163-178: the except clauses, applied to what the try block did
Handlers(r, a) ==
    IF r.do # "raise" THEN r
    ELSE IF r.exc = "ConnectionError" THEN OnConnectionError(r, a)
    ELSE IF r.exc = "Timeout"
         THEN IF RetryOnTimeout(a) THEN Retry
              ELSE Raise("Exception",
                         "Request timed out. The model may be overloaded or unavailable.",
                         "", 0, <<>>)
    ELSE IF RetryOnException(a) THEN Retry ELSE r

\* one iteration of the loop of line 117
Iteration(o, m, a) == Handlers(TryBody(o, m, a), a)

\* line 117: range(max_retries) has a next value
LoopContinues(a) == a + 1 < max_retries

\* f"{x:.2f} seconds" of a whole number of seconds
Latency(d) == ToString(d) \o ".00 seconds"

\* mutant: output_tokens keeps the 0 it started with
MetricsOutputZero(m, c, analysis, d) ==
    [model |-> m, input_tokens |-> estimate_token_count(c),
     output_tokens |-> 0, latency |-> Latency(d)]

\* lines 91-96, 136, 143
Metrics(m, c, analysis, d) ==
    [model |-> m, input_tokens |-> estimate_token_count(c),
     output_tokens |-> estimate_token_count(analysis), latency |-> Latency(d)]

\* ------------------------------------------------------------------ app.py
\* line 74: st.session_state.get(key)
Lookup(c, k) == c[k]
\* mutant: the cache is never hit
HitNever(r) == FALSE
\* line 76: if cached_result
Hit(r) == r # NoResult
\* mutant: the session keeps the latest result only
StoreOnlyLatest(c, k, r) == [kk \in DOMAIN c |-> IF kk = k THEN r ELSE NoResult]
\* line 99
Store(c, k, r) == [c EXCEPT ![k] = r]
\* line 103
Preview(c) ==
    IF Len(c) > PreviewLen THEN SubSeq(c, 1, PreviewLen) \o <<46, 46, 46>> ELSE c
\* line 109
ErrorShown(e) == [kind |-> "error", error |-> e]

\* lines 70-89: Analyze Code pressed with snippet c in the text area, model m selected
Submit(c, m) ==
    /\ pc[UI] = "idle"
    /\ now <= MaxTimeApp
    /\ code' = c
    /\ model' = m
    /\ trace' = <<>>
    /\ result' = NoCall
    /\ IF Strip(c) = <<>>
       THEN /\ shown' = ErrorShown(Raise("", "Please enter some code to analyze.", "", 0, <<>>))
            /\ buttons' = Drawn(history)
            /\ UNCHANGED <<now, rlvars, obsvars, cache, history, attempt, start_time, before>>
       ELSE LET cached_result == Lookup(cache, cache_key(c)) IN
            IF Hit(cached_result)
            THEN /\ shown' = [kind |-> "cached", analysis |-> cached_result.analysis,
                              metrics |-> cached_result.metrics]
                 /\ buttons' = Drawn(history)
                 /\ UNCHANGED <<now, rlvars, obsvars, cache, history, attempt, start_time, before>>
            ELSE /\ start_time' = now
                 /\ Advance(ProgressSeconds)
                 /\ pc' = [pc EXCEPT ![UI] = "poll"]
                 /\ waiting' = [waiting EXCEPT ![UI] = TRUE]
                 /\ attempt' = 0
                 /\ before' = <<cache, history>>
                 /\ shown' = Nothing
                 /\ buttons' = [clear |-> history # <<>>, entries |-> 0]
                 /\ UNCHANGED <<calls, lock, key, tnow, ret, seen, cache, history>>

\* llm_service.py:32: wait_until_can_call polls can_call(model)
WaitPoll ==
    /\ pc[UI] = "poll"
    /\ Enter(UI, model)
    /\ UNCHANGED <<now, ret, waiting, admitted, streak, appvars>>

\* mutant: `if not self.can_call(key)` for `while`: the wait is over after one poll
WaitReturnAfterOnePoll ==
    /\ pc[UI] = "ret"
    /\ pc' = [pc EXCEPT ![UI] = "request"]
    /\ waiting' = [waiting EXCEPT ![UI] = FALSE]
    /\ ret' = [ret EXCEPT ![UI] = FALSE]
    /\ UNCHANGED <<now, calls, lock, key, tnow, seen, obsvars, appvars>>

\* llm_service.py:32-33: can_call returned into the loop of wait_until_can_call
WaitReturn ==
    /\ pc[UI] = "ret"
    /\ pc' = [pc EXCEPT ![UI] = IF ret[UI] THEN "request" ELSE "sleep"]
    /\ waiting' = [waiting EXCEPT ![UI] = ~ret[UI]]
    /\ ret' = [ret EXCEPT ![UI] = FALSE]
    /\ UNCHANGED <<now, calls, lock, key, tnow, seen, obsvars, appvars>>

\* llm_service.py:33: time.sleep(0.1) is over; d whole seconds have gone by
Wake(d) ==
    /\ pc[UI] = "sleep"
    /\ pc' = [pc EXCEPT ![UI] = "poll"]
    /\ Advance(d)
    /\ UNCHANGED <<calls, lock, key, tnow, ret, waiting, seen, appvars>>

\* llm_service.py:117-178: one attempt of the retry loop, the server doing o
\* after d seconds: the call returns, raises, or begins the sleep before its
\* next attempt
Iterate(o, d) ==
    /\ pc[UI] = "request"
    /\ Advance(d)
    /\ LET r == Iteration(o, model, attempt) IN
       /\ trace' = trace \o <<o>> \o (IF r.do = "retry" THEN <<Sleep>> ELSE <<>>)
       /\ IF r.do = "retry"
          THEN /\ pc' = [pc EXCEPT ![UI] = "backoff"]
               /\ UNCHANGED <<attempt, result>>
          ELSE /\ attempt' = 0
               /\ pc' = [pc EXCEPT ![UI] = "idle"]
               /\ result' =
                    IF r.do = "return"
                    THEN [kind |-> "returned", analysis |-> r.analysis,
                          metrics |-> Metrics(model, code, r.analysis, d)]
                    ELSE [kind |-> "raised", error |-> r]
    /\ UNCHANGED <<calls, lock, key, tnow, ret, waiting, seen, code, model, start_time>>

\* llm_service.py:155-156, 168-169, 175-176 and 117: time.sleep(retry_delay)
\* is over and `continue` takes the loop to its next attempt; a loop that has
\* no next attempt ends and the function returns None
Backoff ==
    /\ pc[UI] = "backoff"
    /\ Advance(retry_delay)
    /\ IF LoopContinues(attempt)
       THEN /\ attempt' = attempt + 1
            /\ pc' = [pc EXCEPT ![UI] = "request"]
            /\ UNCHANGED result
       ELSE /\ attempt' = 0
            /\ pc' = [pc EXCEPT ![UI] = "idle"]
            /\ result' = [kind |-> "returned None"]
    /\ UNCHANGED <<calls, lock, key, tnow, ret, waiting, seen, code, model, start_time,
                   trace>>

\* mutant: the history entry is added whether analyze_code returned or raised
AfterAnalyzeListsFailures(res) ==
    /\ history' = Append(history, [code_snippet |-> Preview(code),
                                   timestamp |-> now', key |-> cache_key(code)])
    /\ IF res.kind = "returned"
       THEN LET metrics == [res.metrics EXCEPT !.latency = Latency(now' - start_time)]
            IN /\ cache' = Store(cache, cache_key(code),
                                 [analysis |-> res.analysis, metrics |-> metrics])
               /\ shown' = [kind |-> "result", analysis |-> res.analysis,
                            metrics |-> metrics]
               /\ buttons' = [buttons EXCEPT !.entries = Len(history')]
       ELSE /\ shown' = ErrorShown(res.error)
            /\ UNCHANGED <<cache, buttons>>

\* app.py:92-110, 113, 130-132: analyze_code has returned or raised; the clock
\* is read (lines 95, 104) after the call, at the time the step ends. The run
\* goes on to draw a button for every history entry when the call returned,
\* and ends at line 110, with no history button drawn, when it raised
AfterAnalyze(res) ==
    IF res.kind = "returned"
    THEN LET k == cache_key(code)
             metrics == [res.metrics EXCEPT !.latency = Latency(now' - start_time)]
         IN /\ cache' = Store(cache, k, [analysis |-> res.analysis, metrics |-> metrics])
            /\ history' = Append(history, [code_snippet |-> Preview(code),
                                           timestamp |-> now', key |-> k])
            /\ shown' = [kind |-> "result", analysis |-> res.analysis, metrics |-> metrics]
            /\ buttons' = [buttons EXCEPT !.entries = Len(history')]
    ELSE /\ shown' = ErrorShown(IF res.kind = "raised" THEN res.error
                                ELSE Raise("TypeError",
                                           "cannot unpack non-iterable NoneType object",
                                           "", 0, <<>>))
         /\ UNCHANGED <<cache, history, buttons>>

\* one attempt of the analysis a submission started, and what main() does when
\* analyze_code ends
Attempt(o, d) ==
    /\ Iterate(o, d)
    /\ IF pc'[UI] = "idle"
       THEN /\ AfterAnalyze(result')
            /\ before' = <<>>
       ELSE UNCHANGED <<cache, history, shown, buttons, before>>

\* the sleep between two attempts of that analysis
AttemptBackoff ==
    /\ Backoff
    /\ IF pc'[UI] = "idle"
       THEN /\ AfterAnalyze(result')
            /\ before' = <<>>
       ELSE UNCHANGED <<cache, history, shown, buttons, before>>

\* app.py:131-136: a history button pressed; i counts from the newest entry
HistoryClick(i) ==
    /\ pc[UI] = "idle"
    /\ i \in 1..buttons.entries
    /\ buttons' = Drawn(history)
    /\ LET item == history[Len(history) + 1 - i]
           cached_result == Lookup(cache, item.key)
       IN shown' = IF Hit(cached_result)
                   THEN [kind |-> "history", analysis |-> cached_result.analysis,
                         metrics |-> cached_result.metrics]
                   ELSE Nothing
    /\ trace' = <<>>
    /\ result' = NoCall
    /\ UNCHANGED <<now, rlvars, obsvars, cache, history, code, model, attempt, start_time, before>>

\* app.py:33-36
ClearHistory ==
    /\ pc[UI] = "idle"
    /\ buttons.clear
    /\ history' = <<>>
    /\ shown' = Nothing
    /\ buttons' = Drawn(<<>>)
    /\ trace' = <<>>
    /\ result' = NoCall
    /\ UNCHANGED <<now, rlvars, obsvars, cache, code, model, attempt, start_time, before>>

\* app.py:47-58, 61-66, 30: a run of main() in which neither Analyze Code nor
\* a history entry is pressed (Load Example, an edit of the text area, another
\* pick in the select box): the result column is empty again
Rerun ==
    /\ pc[UI] = "idle"
    /\ shown' = Nothing
    /\ buttons' = Drawn(history)
    /\ trace' = <<>>
    /\ result' = NoCall
    /\ UNCHANGED <<now, rlvars, obsvars, cache, history, code, model, attempt, start_time, before>>

\* time passes between two clicks
TickApp ==
    /\ pc[UI] = "idle"
    /\ now < MaxTimeApp
    /\ Advance(1)
    /\ UNCHANGED <<rlvars, appvars>>

NextApp ==
    \/ TickApp
    \/ \E c \in Snippets, m \in Models : Submit(c, m)
    \/ WaitPoll
    \/ Check(UI)
    \/ AppendCall(UI)
    \/ WaitReturn
    \/ \E d \in {0, 1} : Wake(d)
    \/ \E o \in AppOutcomes, d \in PostSeconds : Attempt(o, d)
    \/ AttemptBackoff
    \/ \E i \in 1..Cardinality(Snippets) : HistoryClick(i)
    \/ ClearHistory
    \/ Rerun

SpecApp == InitUsed /\ [][NextApp]_vars

\* ------------------------------------------- analyze_code called on its own
\* llm_service.py:55-67, 89: analyze_code(c, m) is called
CallAnalyze(c, m) ==
    /\ pc[UI] = "idle"
    /\ now <= MaxTimeAnalyze
    /\ code' = c
    /\ model' = m
    /\ trace' = <<>>
    /\ result' = NoCall
    /\ attempt' = 0
    /\ pc' = [pc EXCEPT ![UI] = "poll"]
    /\ waiting' = [waiting EXCEPT ![UI] = TRUE]
    /\ UNCHANGED <<now, calls, lock, key, tnow, ret, seen, obsvars,
                   cache, history, shown, buttons, start_time, before>>

AnalyzeAttempt(o, d) ==
    /\ Iterate(o, d)
    /\ UNCHANGED <<cache, history, shown, buttons, before>>

AnalyzeBackoff ==
    /\ Backoff
    /\ UNCHANGED <<cache, history, shown, buttons, before>>

TickAnalyze ==
    /\ pc[UI] = "idle"
    /\ now <= MaxTimeAnalyze
    /\ Advance(1)
    /\ UNCHANGED <<rlvars, appvars>>

\* the snippet is "f()" throughout: of the snippet a call uses its token count only
NextAnalyze ==
    \/ TickAnalyze
    \/ \E m \in Models : CallAnalyze(SnippetCall, m)
    \/ WaitPoll
    \/ Check(UI)
    \/ AppendCall(UI)
    \/ WaitReturn
    \/ \E d \in {0, 1} : Wake(d)
    \/ \E o \in Outcomes, d \in PostSeconds : AnalyzeAttempt(o, d)
    \/ AnalyzeBackoff

SpecAnalyze == InitUsed /\ [][NextAnalyze]_vars

\* ------------------------------------- wait_until_can_call, several threads
\* llm_service.py:31: wait_until_can_call(k) is called
CallWait(t, k) ==
    /\ pc[t] = "idle"
    /\ pc' = [pc EXCEPT ![t] = "poll"]
    /\ key' = [key EXCEPT ![t] = k]
    /\ waiting' = [waiting EXCEPT ![t] = TRUE]
    /\ UNCHANGED <<now, calls, lock, tnow, ret, seen, obsvars, appvars>>

\* llm_service.py:32: the loop condition calls can_call(key)
Poll(t) ==
    /\ pc[t] = "poll"
    /\ Enter(t, key[t])
    /\ UNCHANGED <<now, ret, waiting, admitted, streak, appvars>>

\* llm_service.py:32-33: can_call returned into the loop: True ends the loop
\* and the wait returns, False goes to sleep
LoopReturn(t) ==
    /\ waiting[t]
    /\ pc[t] = "ret"
    /\ pc' = [pc EXCEPT ![t] = IF ret[t] THEN "idle" ELSE "sleep"]
    /\ waiting' = [waiting EXCEPT ![t] = ~ret[t]]
    /\ ret' = [ret EXCEPT ![t] = FALSE]
    /\ key' = [key EXCEPT ![t] = IF ret[t] THEN "codellama" ELSE @]
    /\ UNCHANGED <<now, calls, lock, tnow, seen, obsvars, appvars>>

\* llm_service.py:33: time.sleep(0.1) is over; the clock moves by TickWait,
\* before, after or not at all between two polls
WakeUp(t) ==
    /\ pc[t] = "sleep"
    /\ pc' = [pc EXCEPT ![t] = "poll"]
    /\ UNCHANGED <<now, calls, lock, key, tnow, ret, waiting, seen, obsvars, appvars>>

\* can_call has returned to a thread that called it directly
ReturnDirect(t) == ~waiting[t] /\ Return(t)

\* the times of a list moved one second into the past, those at or below
\* floor staying at floor
ShiftBack(list, floor) == [i \in DOMAIN list |-> Max(list[i] - 1, floor)]

\* one second passes. The code uses differences of times only, so once the
\* clock has reached MaxTimeWait the origin of time moves forward instead of
\* the clock: every recorded time is one second older; a time that is period
\* old or more is dropped by the next can_call however old it is, and stays
\* at now - period.
TickWait ==
    /\ IF now < MaxTimeWait
       THEN /\ Advance(1)
            /\ UNCHANGED <<calls, tnow, seen>>
       ELSE LET floor == now - period
                inside(t) == pc[t] \in {"check", "append"}
            IN /\ now' = now
               /\ calls' = [k \in Keys |-> ShiftBack(calls[k], floor)]
               /\ tnow' = [t \in Threads |->
                             IF inside(t) THEN Max(tnow[t] - 1, floor) ELSE tnow[t]]
               /\ seen' = [t \in Threads |-> ShiftBack(seen[t], floor)]
               /\ admitted' = [k \in Keys |->
                                 TrailingWindow(ShiftBack(admitted[k], floor), now)]
               /\ streak' = [k \in Keys |->
                               IF streak[k] = NoStreak \/ now - (streak[k].first - 1) >= period
                               THEN NoStreak
                               ELSE [streak[k] EXCEPT !.first = @ - 1]]
    /\ UNCHANGED <<lock, pc, key, ret, waiting, appvars>>

\* what a thread that has begun a call does next
Step(t) ==
    \/ Check(t)
    \/ AppendCall(t)
    \/ ReturnDirect(t)
    \/ LoopReturn(t)
    \/ WakeUp(t)

\* the threads contend for one key
WaitKeys == {"codellama"}

NextWait ==
    \/ TickWait
    \/ \E t \in Workers, k \in WaitKeys : CallCanCall(t, k)
    \/ \E t \in Workers, k \in WaitKeys : CallWait(t, k)
    \/ \E t \in Workers : Poll(t)
    \/ \E t \in Workers : Step(t)

\* time goes on, a running thread keeps running, and a thread that asks for
\* the lock again and again while it is free again and again gets it
SpecWait ==
    /\ Init
    /\ [][NextWait]_vars
    /\ WF_vars(TickWait)
    /\ \A t \in Workers : WF_vars(Step(t)) /\ SF_vars(Poll(t))

\* ------------------------------------------- estimate_token_count on its own
\* the characters the texts are made of: the word characters a B 7 _ é and,
\* beyond Latin-1, capital sigma and subscript zero; the whitespace blank,
\* newline and U+1680; the symbols ( and .
Alphabet == {97, 66, 55, 95, 233, 931, 8320, 32, 10, 5760, 40, 46}
Texts == UNION {[1..n -> Alphabet] : n \in 0..MaxTextLen}

InitTokens ==
    /\ InitRL
    /\ cache = [k \in CacheKeys |-> NoResult]
    /\ history = <<>>
    /\ shown = Nothing
    /\ buttons = NoButtons
    /\ code \in Texts
    /\ model = "codellama"
    /\ attempt = 0
    /\ start_time = 0
    /\ trace = <<>>
    /\ result = NoCall
    /\ before = <<>>

\* llm_service.py:74-81: estimate_token_count(code) is called and returns
Estimate ==
    /\ result = NoCall
    /\ result' = [kind |-> "tokens", count |-> estimate_token_count(code)]
    /\ UNCHANGED <<now, rlvars, obsvars, cache, history, shown, buttons, code, model,
                   attempt, start_time, trace, before>>

\* the text grows by one character and is estimated again
NewText(c) ==
    /\ result # NoCall
    /\ Len(code) < MaxTextLen
    /\ code' = Append(code, c)
    /\ result' = NoCall
    /\ UNCHANGED <<now, rlvars, obsvars, cache, history, shown, buttons, model,
                   attempt, start_time, trace, before>>

NextTokens ==
    \/ Estimate
    \/ \E c \in Alphabet : NewText(c)

SpecTokens == InitTokens /\ [][NextTokens]_vars

\* ------------------------------------------------- get_available_models
\* what GET /api/tags does: the request raises, or a response comes back whose
\* body is no JSON, is JSON but no object, or is an object with or without a
\* "models" list, whose entries have a "name" or lack it
DefaultModels == <<"codellama">>
Entries ==
    {[has_name |-> TRUE, name |-> m] : m \in Models} \cup {[has_name |-> FALSE, name |-> ""]}
ModelLists == UNION {[1..n -> Entries] : n \in 0..MaxModels}
TagsBody(json, has_models, models) ==
    [json |-> json, has_models |-> has_models, models |-> models]
TagsBodies ==
    {TagsBody("invalid", FALSE, <<>>), TagsBody("array", FALSE, <<>>),
     TagsBody("object", FALSE, <<>>)}
       \cup {TagsBody("object", TRUE, l) : l \in ModelLists}
Discoveries ==
    {[type |-> "response", status |-> st, body |-> b] :
        st \in {200, 404, 500}, b \in TagsBodies}
      \cup {[type |-> e, status |-> 0, body |-> TagsBody("invalid", FALSE, <<>>)] :
              e \in {"ConnectionError", "Timeout", "Exception"}}

TagsRaise(exc) == [do |-> "raise", exc |-> exc, models |-> <<>>]
TagsReturn(models) == [do |-> "return", exc |-> "", models |-> models]

\* llm_service.py:44-49: the try block
TagsTry(d) ==
    IF d.type # "response" THEN TagsRaise(d.type)
    ELSE IF d.status = 200
         THEN IF d.body.json = "invalid" THEN TagsRaise("JSONDecodeError")
              ELSE IF d.body.json = "array" THEN TagsRaise("AttributeError")
              ELSE LET listed == IF d.body.has_models THEN d.body.models ELSE <<>> IN
                   IF \E i \in DOMAIN listed : ~listed[i].has_name
                   THEN TagsRaise("KeyError")
                   ELSE LET models == [i \in DOMAIN listed |-> listed[i].name] IN
                        TagsReturn(IF models # <<>> THEN models ELSE DefaultModels)
         ELSE TagsReturn(DefaultModels)

\* mutant: except requests.exceptions.RequestException
TagsHandlerRequestsOnly(r) ==
    IF r.do = "raise" /\ r.exc \in {"ConnectionError", "Timeout"}
    THEN TagsReturn(DefaultModels) ELSE r

\* llm_service.py:50-51: except Exception
TagsHandler(r) == IF r.do = "raise" THEN TagsReturn(DefaultModels) ELSE r

\* llm_service.py:38-53, LLM_PROVIDER being "ollama"
get_available_models(d) == TagsHandler(TagsTry(d))

\* app.py:29-30: a run of main() fills the sidebar: the models are discovered;
\* the select box shows the first (index=0) when it is a new widget and keeps
\* the user's pick when its options are those of the run before
Discover(d) ==
    /\ pc[UI] = "idle"
    /\ LET r == get_available_models(d) IN
       /\ result' = [kind |-> "models", discovery |-> d, outcome |-> r]
       /\ buttons' = Drawn(history)
       /\ IF r.do = "return"
          THEN /\ shown' = [kind |-> "sidebar", models |-> r.models]
               /\ model' = IF shown.kind = "sidebar" /\ shown.models = r.models
                           THEN model ELSE r.models[1]
          ELSE /\ shown' = ErrorShown(r)
               /\ UNCHANGED model
    /\ UNCHANGED <<now, rlvars, obsvars, cache, history, code, attempt, start_time,
                   trace, before>>

\* app.py:30: the user picks another entry of the select box
SelectModel(i) ==
    /\ shown.kind = "sidebar"
    /\ i \in DOMAIN shown.models
    /\ model' = shown.models[i]
    /\ UNCHANGED <<now, rlvars, obsvars, cache, history, shown, buttons, code, attempt,
                   start_time, trace, result, before>>

NextModels ==
    \/ \E d \in Discoveries : Discover(d)
    \/ \E i \in 1..MaxModels : SelectModel(i)

SpecModels == Init /\ [][NextModels]_vars

\* ------------------------------------------------------------------ claims
\* a step in which thread t's can_call returns
Returns(t) == pc[t] \in {"check", "append"} /\ pc'[t] = "ret"

\* C1: under any interleaving of can_call invocations by several threads, the
\* calls admitted for one key with a timestamp in the trailing window of
\* length period never number more than max_calls, and a key's list never
\* holds more than max_calls timestamps.
C1_WindowNeverExceeded ==
    \A k \in Keys : Len(admitted[k]) <= max_calls /\ Len(calls[k]) <= max_calls

\* both workers asked for the last free slot of one key: one got it, one did not
C1_Witness ==
    \E k \in Keys :
        /\ pc["t1"] = "ret" /\ pc["t2"] = "ret"
        /\ key["t1"] = k /\ key["t2"] = k
        /\ ret["t1"] # ret["t2"]
        /\ Len(admitted[k]) = max_calls

\* C2: from an empty list, the checks of one key made within period of the
\* first return True exactly max_calls times and then False; a check that
\* finds the list full returns True exactly when the oldest recorded call has
\* left the window.
C2_StreakOk ==
    \A k \in Keys :
        streak[k] # NoStreak => streak[k].trues = Min(streak[k].n, max_calls)

C2_QuotaThenRefusal ==
    [][ /\ C2_StreakOk'
        /\ \A t \in Threads :
              (Returns(t) /\ Len(seen[t]) = max_calls)
                 => (ret'[t] <=> (tnow[t] - seen[t][1] >= period)) ]_vars

\* max_calls + 1 checks of one key within period: max_calls True, then False
C2_Witness ==
    \E k \in Keys : streak[k].n = max_calls + 1 /\ streak[k].trues = max_calls

\* C10: a can_call(k) leaves the list of every other key unchanged, and it
\* returns False only when max_calls calls of k itself are within the window.
C10_KeysIndependent ==
    [][ \A t \in Threads :
          /\ pc'[t] # pc[t] =>
                \A k \in Keys : k # key'[t] \/ pc'[t] = "idle" => calls'[k] = calls[k]
          /\ (Returns(t) /\ ~ret'[t]) =>
                Cardinality({i \in DOMAIN seen[t] :
                               tnow[t] - seen[t][i] < period}) >= max_calls ]_vars

\* one key is exhausted and refuses, the other key still admits
C10_Witness ==
    \E t \in Workers, u \in Workers :
        /\ pc[t] = "ret" /\ ~ret[t] /\ Len(calls[key[t]]) = max_calls
        /\ pc[u] = "ret" /\ ret[u] /\ key[u] # key[t]

\* ---------------------------------------------------- claims about analyze
Tags(tr) == [i \in DOMAIN tr |-> Tag(tr[i])]
Requests(tr) == SelectSeq(tr, LAMBDA e : e # Sleep)
\* the number of requests among the first i entries of the trace
RequestsUpTo(i) == Len(Requests(SubSeq(trace, 1, i)))
Ended == pc[UI] = "idle" /\ result # NoCall

\* a 200 response whose body can be read: a JSON object whose "response"
\* field, when there is one, is a string
Readable(o) == Tag(o) = "200" /\ o.json = "object"

\* C3 as stated: 429 on the first two attempts and 200 on the third: the call
\* returns; 429 on all three: the call raises the rate-limit error after
\* exactly three requests, with a retry delay between two attempts and none
\* after the last.
C3_SucceedsOnEvery200 ==
    LET reqs == Tags(Requests(trace)) IN
    /\ reqs \in {<<"429">>, <<"429", "429">>} =>
          /\ pc[UI] \in {"backoff", "request"}
          /\ trace[Len(trace)] = Sleep
          /\ Len(trace) = 2 * Len(reqs)
    /\ reqs = <<"429", "429", "200">> =>
          /\ Ended
          /\ Tags(trace) = <<"429", "sleep", "429", "sleep", "200">>
          /\ result.kind = "returned"
    /\ reqs = <<"429", "429", "429">> =>
          /\ Ended
          /\ Tags(trace) = <<"429", "sleep", "429", "sleep", "429">>
          /\ result.kind = "raised"
          /\ result.error.msg = "Rate limit exceeded. Please try again later."

\* C3: 429 on the first two attempts and on the third a 200 whose body can be
\* read: the call returns the third response's explanation; a 200 whose body
\* cannot be read on the third attempt: the call raises what reading the body
\* raised; 429 on all three: the call raises the rate-limit error after
\* exactly three requests, with a retry delay between two attempts and none
\* after the last.
C3_RetryOn429 ==
    LET reqs == Tags(Requests(trace)) IN
    /\ reqs \in {<<"429">>, <<"429", "429">>} =>
          /\ pc[UI] \in {"backoff", "request"}
          /\ trace[Len(trace)] = Sleep
          /\ Len(trace) = 2 * Len(reqs)
    /\ reqs = <<"429", "429", "200">> =>
          /\ Ended
          /\ Tags(trace) = <<"429", "sleep", "429", "sleep", "200">>
          /\ IF Readable(trace[5])
             THEN /\ result.kind = "returned"
                  /\ trace[5].has => result.analysis = trace[5].text
             ELSE /\ result.kind = "raised"
                  /\ result.error.msg # "Rate limit exceeded. Please try again later."
    /\ reqs = <<"429", "429", "429">> =>
          /\ Ended
          /\ Tags(trace) = <<"429", "sleep", "429", "sleep", "429">>
          /\ result.kind = "raised"
          /\ result.error.msg = "Rate limit exceeded. Please try again later."

C3_Witness ==
    /\ Tags(trace) = <<"429", "sleep", "429", "sleep", "200">>
    /\ result.kind = "returned"
    /\ result.analysis = TextOk

\* C4: a response whose status is neither 200 nor 429 ends the call at once:
\* nothing follows it in the trace, neither a retry delay nor a request.
C4_FatalStatusEndsCall ==
    \A i \in DOMAIN trace :
        (trace[i].type = "response" /\ trace[i].status \notin {200, 429}) =>
            /\ i = Len(trace)
            /\ Ended
            /\ result.kind = "raised"

\* C5: a connection failure at any attempt ends the call at once with the
\* server-unreachable error; a timeout with attempts left is retried.
C5_ConnectionFailureEndsCall ==
    \A i \in DOMAIN trace :
        /\ trace[i].type = "ConnectionError" =>
              /\ i = Len(trace)
              /\ Ended
              /\ result.kind = "raised"
              /\ result.error.msg =
                   "Could not connect to Ollama. Please make sure Ollama is running locally."
        /\ (trace[i].type = "Timeout" /\ RequestsUpTo(i) < max_retries) =>
              i < Len(trace) /\ trace[i + 1] = Sleep

\* the connection fails on the second attempt, one attempt still left
C5_Witness ==
    /\ Tags(trace) = <<"Timeout", "sleep", "ConnectionError">>
    /\ Ended

\* C6: a call issues at most max_retries requests and is over after the last;
\* 429, timeout and other exceptions (among them what reading the body of a
\* 200 raises) are retried while attempts remain and end the call with an error
\* on the last attempt.
Transient(o) == Tag(o) \in {"429", "Timeout", "Exception"} \/ (Tag(o) = "200" /\ ~Readable(o))

C6_BoundedAttempts ==
    /\ Len(Requests(trace)) <= max_retries
    /\ Len(Requests(trace)) = max_retries => Ended
    /\ \A i \in DOMAIN trace :
          Transient(trace[i]) =>
             IF RequestsUpTo(i) < max_retries
             THEN i < Len(trace) /\ trace[i + 1] = Sleep
             ELSE i = Len(trace) /\ Ended /\ result.kind = "raised"

C6_Witness ==
    /\ Tags(trace) = <<"Timeout", "sleep", "Exception", "sleep", "Timeout">>
    /\ Ended
    /\ result.kind = "raised"

\* -------------------------------------------------- claims about the session
\* C7: a cache key that has a result keeps that result whatever is done next.
C7_FirstResultWins ==
    [][ \A k \in CacheKeys :
          Lookup(cache, k) # NoResult => Lookup(cache', k) = Lookup(cache, k) ]_vars

\* after Clear History a snippet is submitted again under another model and
\* resolves to what was stored first
C7_Witness ==
    /\ shown.kind = "cached"
    /\ history = <<>>
    /\ shown.metrics.model # model
    /\ shown = [kind |-> "cached", analysis |-> cache[cache_key(code)].analysis,
                metrics |-> cache[cache_key(code)].metrics]

\* C8: when the analysis of a submission ends without a readable 200, the
\* call has raised, an error is shown, and cache and history are what they
\* were when the submission began: the snippet is still not cached.
C8_FailureLeavesNoEntry ==
    [][ (pc[UI] = "request" /\ pc'[UI] = "idle" /\ ~Readable(trace'[Len(trace')])) =>
          /\ result'.kind = "raised"
          /\ shown'.kind = "error"
          /\ cache' = before[1]
          /\ history' = before[2]
          /\ ~Hit(Lookup(cache', cache_key(code))) ]_vars

\* a submission failed while another snippet was already cached and listed
C8_Witness ==
    /\ pc[UI] = "idle"
    /\ result.kind = "raised"
    /\ shown.kind = "error"
    /\ history # <<>>
    /\ ~Hit(Lookup(cache, cache_key(code)))

\* C9: submitting a snippet whose key is cached issues no request, leaves the
\* rate limiter, the cache and the history unchanged, and shows the stored result.
C9_HitTouchesNothing ==
    [][ \A c \in Snippets, m \in Models :
          (Submit(c, m) /\ Strip(c) # <<>> /\ cache[cache_key(c)] # NoResult) =>
             /\ UNCHANGED <<now, rlvars, obsvars, cache, history>>
             /\ trace' = <<>>
             /\ result' = NoCall
             /\ shown'.analysis = cache[cache_key(c)].analysis
             /\ shown'.metrics = cache[cache_key(c)].metrics ]_vars

\* a cached snippet is submitted with another model selected than the one
\* that analysed it
C9_Witness ==
    /\ shown.kind = "cached"
    /\ history # <<>>
    /\ shown.metrics.model # model
    /\ pc[UI] = "idle"
    /\ trace = <<>>

\* ------------------------------------ claims about wait_until_can_call
\* C11 as claimed: every wait_until_can_call eventually returns, also while
\* other threads wait on or keep calling the same key.
C11_EveryWaitReturns ==
    \A t \in Workers : waiting[t] ~> ~waiting[t]

\* another thread has found room under the key t waits for and is taking it
Outrun(t) == \E u \in Workers \ {t} : pc[u] = "append" /\ key[u] = key[t]

\* C11 as amended: a wait_until_can_call returns only after a can_call that
\* returned True and recorded the call, and it eventually returns unless other
\* threads go on being admitted under its key while it waits.
C11_WaitReturnsUnlessOutrun ==
    /\ [][ \A t \in Workers :
             /\ (waiting[t] /\ ~waiting'[t]) => ret[t]
             /\ (waiting[t] /\ ret'[t] /\ ~ret[t]) =>
                   calls'[key[t]] = Append(calls[key[t]], tnow[t]) ]_vars
    /\ \A t \in Workers : waiting[t] ~> (~waiting[t] \/ Outrun(t))

\* both workers wait for one key: one sleeps after a refusal, the other has
\* just been admitted to the last slot and is about to return
C11_Witness ==
    \E t \in Workers, u \in Workers :
        /\ t # u /\ key[t] = key[u]
        /\ waiting[t] /\ pc[t] = "sleep"
        /\ waiting[u] /\ pc[u] = "ret" /\ ret[u]
        /\ Len(calls[key[u]]) = max_calls

\* C15: the lock is held exactly while a thread is inside the
\* prune-check-append step of one can_call, never by a thread that sleeps
\* between two polls or has returned; while a thread waits, another thread
\* that is idle can enter can_call for any key, and a thread that has entered
\* can finish the step.
C15_LockHeldOnlyInsideCanCall ==
    /\ \A t \in Threads : lock = t <=> pc[t] \in {"check", "append"}
    /\ \A t \in Workers, u \in Workers :
          (waiting[t] /\ pc[t] \in {"sleep", "poll"} /\ pc[u] = "idle") =>
              \A k \in Keys : ENABLED CallCanCall(u, k)
    /\ \A u \in Workers :
          /\ pc[u] = "check" => ENABLED Check(u)
          /\ pc[u] = "append" => ENABLED AppendCall(u)

\* one worker sleeps in its wait for a full key while the other is inside a
\* can_call of the same key and holds the lock
C15_Witness ==
    \E t \in Workers, u \in Workers :
        /\ waiting[t] /\ pc[t] = "sleep"
        /\ Len(calls[key[t]]) = max_calls
        /\ lock = u /\ pc[u] = "check" /\ key[u] = key[t]

\* ------------------------------------------------ more claims about analyze
\* C12: a call that is over has either returned an (explanation, metrics)
\* pair taken from the 200 response of its last request, whose body could be
\* read, or raised an error after a last request that got no such response; it
\* never ends with neither, and a call that is not over has neither.
C12_ReturnsFrom200OrRaises ==
    /\ Ended =>
          /\ trace # <<>>
          /\ result.kind \in {"returned", "raised"}
          /\ result.kind = "returned" <=> Readable(trace[Len(trace)])
          /\ result.kind = "returned" =>
                /\ trace[Len(trace)].has => result.analysis = trace[Len(trace)].text
                /\ DOMAIN result = {"kind", "analysis", "metrics"}
          /\ result.kind = "raised" => result.error.do = "raise"
    /\ pc[UI] # "idle" => result = NoCall

\* the third attempt fails like the first two: the loop is left by a raise
C12_Witness ==
    /\ Tags(trace) = <<"500", "sleep", "Exception", "sleep", "Exception">>
    /\ Ended
    /\ result.kind = "raised"
    /\ result.error.exc = "Exception"

\* C13: a call whose last request got a 404 has raised; the error is the
\* model-not-found error naming the model the call was made for when the body
\* of that response holds the word "model" (in any case of letters), and the
\* endpoint-not-found error, naming no model, when it does not.
Last == trace[Len(trace)]
WordModel == <<109, 111, 100, 101, 108>>    \* "model"

C13_Error404 ==
    (Ended /\ trace # <<>> /\ Tag(Last) = "404") =>
        /\ result.kind = "raised"
        /\ IF \E i \in 1..(Len(Last.text) - 4) :
                 \A j \in 1..5 : Last.text[i + j - 1] \in {WordModel[j], WordModel[j] - 32}
           THEN /\ result.error.msg = "Model not found. Please select another model."
                /\ result.error.model = model
           ELSE /\ result.error.msg = "API endpoint not found. Is Ollama running?"
                /\ result.error.model = ""

\* llama2 was asked for and the server answered 404 "Model x" to the last request
C13_Witness ==
    /\ Ended
    /\ Tags(trace) = <<"404", "sleep", "404", "sleep", "404">>
    /\ trace[1].text = Text404
    /\ trace[5].text = TextModelX
    /\ model = "llama2"
    /\ result.error.model = "llama2"

\* C14: a call posts its requests only once its wait has been admitted under
\* the key of its model: the first request follows the return of a can_call
\* that returned True for that key and recorded the call; that admission is the
\* only call the analyze call records, since a refused poll records nothing
\* and the attempts, however many, leave the limiter as it is.
C14_OneSlotPerCall ==
    [][ /\ (pc'[UI] = "request" /\ pc[UI] \notin {"request", "backoff"}) =>
              pc[UI] = "ret" /\ ret[UI] /\ key[UI] = model
        /\ (ret'[UI] /\ ~ret[UI]) =>
              /\ key[UI] = model
              /\ calls'[model] = Append(calls[model], tnow[UI])
        /\ (pc[UI] = "ret" /\ ret[UI]) => pc'[UI] = "request"
        /\ (Returns(UI) /\ ~ret'[UI]) => calls' = calls
        /\ pc[UI] \in {"request", "backoff", "ret", "sleep"} => calls' = calls
        /\ pc[UI] \in {"request", "backoff"} => pc'[UI] \in {"request", "backoff", "idle"}
        /\ (trace' # trace /\ trace' # <<>>) => pc[UI] = "request" ]_vars

\* a call for a used-up key waited until the old calls had left the window,
\* then made three attempts: its admission is the one call the key records
C14_Witness ==
    /\ Ended
    /\ Len(Requests(trace)) = max_retries
    /\ Len(calls[model]) = 1
    /\ calls[model][1] >= period

\* ------------------------------------------ claims about the token estimate
\* the places of a text where a maximal run of word characters begins, and
\* the places of its characters that are neither word characters nor whitespace
WordStarts(text) ==
    {i \in DOMAIN text : IsWord(text[i]) /\ (i = 1 \/ ~IsWord(text[i - 1]))}
Symbols(text) == {i \in DOMAIN text : ~IsWord(text[i]) /\ ~IsSpace(text[i])}
TokenCount(text) == Cardinality(WordStarts(text)) + Cardinality(Symbols(text))

\* C17: the estimate of a text is the number of its maximal runs of word
\* characters plus the number of its characters that are neither word
\* characters nor whitespace; it is never negative and is 0 for the empty
\* text and for a text of whitespace only.
C17_TokenCount ==
    result.kind = "tokens" =>
        /\ result.count = TokenCount(code)
        /\ result.count >= 0
        /\ (\A i \in DOMAIN code : IsSpace(code[i])) => result.count = 0

\* "_7(" : one run of two word characters and one symbol
C17_Witness ==
    /\ code = <<95, 55, 40>>
    /\ result = [kind |-> "tokens", count |-> 2]

\* C18: a call whose last response is a 200 with a body that can be read
\* returns, with or without a response field in the body; a call that returned
\* gives the response field of the body of its 200 response, or the placeholder
\* "No analysis provided" when the body has no such field; its metrics name the
\* model asked for and count the tokens of the snippet and of the explanation
\* returned.
C18_ExplanationAndMetrics ==
    /\ (Ended /\ trace # <<>> /\ Readable(Last)) => result.kind = "returned"
    /\ (Ended /\ result.kind = "returned") =>
        /\ Readable(Last)
        /\ result.analysis = IF Last.has THEN Last.text ELSE NoAnalysis
        /\ result.metrics.model = model
        /\ result.metrics.input_tokens = TokenCount(code)
        /\ result.metrics.output_tokens = TokenCount(result.analysis)

\* "f()" sent to llama2, a 200 body without the response field: the
\* placeholder of three tokens is returned
C18_Witness ==
    /\ Ended
    /\ result.kind = "returned"
    /\ ~Last.has
    /\ code = SnippetCall
    /\ model = "llama2"
    /\ result.analysis = NoAnalysis
    /\ result.metrics.input_tokens = 3
    /\ result.metrics.output_tokens = 3

\* ------------------------------------------- claims about model discovery
\* the discovery did not yield a list of at least one named model
DiscoveryFailed(d) ==
    \/ d.type # "response"
    \/ d.status # 200
    \/ d.body.json # "object"
    \/ ~d.body.has_models
    \/ d.body.models = <<>>
    \/ \E i \in DOMAIN d.body.models : ~d.body.models[i].has_name

\* C16: get_available_models never raises and returns a list that is not
\* empty: the single default entry on every failure of the discovery, the
\* names the server listed otherwise.
C16_ModelsNeverRaise ==
    result.kind = "models" =>
        LET d == result.discovery
            r == result.outcome
        IN /\ r.do = "return"
           /\ r.models # <<>>
           /\ IF DiscoveryFailed(d)
              THEN r.models = <<"codellama">>
              ELSE /\ Len(r.models) = Len(d.body.models)
                   /\ \A i \in DOMAIN r.models : r.models[i] = d.body.models[i].name

\* a 200 whose list has an entry without a name: the default, not the KeyError
C16_Witness ==
    /\ result.kind = "models"
    /\ result.discovery.status = 200
    /\ Len(result.discovery.body.models) = 2
    /\ result.discovery.body.models[1].name = "llama2"
    /\ ~result.discovery.body.models[2].has_name
    /\ result.outcome = TagsReturn(<<"codellama">>)
    /\ shown = [kind |-> "sidebar", models |-> <<"codellama">>]

\* --------------------------------------------- more claims about can_call
\* a step in which thread t enters can_call
Enters(t) == pc[t] \notin {"check", "append"} /\ pc'[t] = "check"

\* C19 as claimed: can_call drops the times older than now - period and keeps
\* a time whose age is period exactly; with fewer than max_calls times kept it
\* appends now and returns True, otherwise it returns False and the list is
\* the kept times.
C19_KeepsAgeEqualToPeriod ==
    [][ \A t \in Threads :
          /\ Enters(t) =>
                calls'[key'[t]] =
                   SelectSeq(calls[key'[t]], LAMBDA c : ~(c < tnow'[t] - period))
          /\ Returns(t) =>
                LET kept == SelectSeq(seen[t], LAMBDA c : ~(c < tnow[t] - period)) IN
                IF Len(kept) < max_calls
                THEN ret'[t] /\ calls'[key[t]] = Append(kept, tnow[t])
                ELSE ~ret'[t] /\ calls'[key[t]] = kept ]_vars

\* C19 as amended: can_call drops the times whose age is period or more, a
\* time exactly period old included, and keeps the younger ones in their
\* order; with fewer than max_calls times kept it appends now and returns
\* True, otherwise it returns False and the list is the kept times.
C19_DropsAgeEqualToPeriod ==
    [][ \A t \in Threads :
          /\ Enters(t) =>
                /\ tnow'[t] = now
                /\ calls'[key'[t]] =
                      SelectSeq(calls[key'[t]], LAMBDA c : c > now - period)
          /\ Returns(t) =>
                LET kept == SelectSeq(seen[t], LAMBDA c : c > tnow[t] - period) IN
                IF Len(kept) < max_calls
                THEN ret'[t] /\ calls'[key[t]] = Append(kept, tnow[t])
                ELSE ~ret'[t] /\ calls'[key[t]] = kept ]_vars

\* a can_call found the key full, its oldest call exactly period old and
\* another younger: the oldest was dropped and the call is about to be admitted
C19_Witness ==
    \E t \in Workers :
        /\ pc[t] = "append"
        /\ Len(seen[t]) = max_calls
        /\ tnow[t] - seen[t][1] = period
        /\ tnow[t] - seen[t][max_calls] < period
        /\ Len(calls[key[t]]) < max_calls

\* ------------------------------------------- more claims about the session
\* C20: every entry of the history has a key under which the session holds a
\* result, so that its button shows one, and no two entries have the same key.
C20_HistoryResolves ==
    /\ \A i \in DOMAIN history :
          /\ Lookup(cache, history[i].key) # NoResult
          /\ Hit(Lookup(cache, history[i].key))
    /\ \A i \in DOMAIN history, j \in DOMAIN history :
          i # j => history[i].key # history[j].key
    /\ shown.kind = "history" =>
          \E i \in DOMAIN history :
              /\ shown.analysis = Lookup(cache, history[i].key).analysis
              /\ shown.metrics = Lookup(cache, history[i].key).metrics

\* two snippets were analysed with Clear History pressed in between: the one
\* entry left is clicked and shows its result, the other result stays cached
C20_Witness ==
    /\ Len(history) = 1
    /\ \A c \in Snippets \ {SnippetBlank} : Lookup(cache, cache_key(c)) # NoResult
    /\ shown.kind = "history"
    /\ shown.analysis = Lookup(cache, history[1].key).analysis

====
